---------------------------- MODULE Spec2Model ----------------------------
(***************************************************************************)
(* COREXIA agents: the agent decision cycle (app/worker.py), the shared    *)
(* drift/friction gate and position sizing (app/agents/base.py), the risk  *)
(* gate (app/execution/risk.py), the regime classifier                     *)
(* (matrix_scanner/app.py) and the drift detector                          *)
(* (matrix_scanner/regime_archive.py).                                     *)
(*                                                                         *)
(* Numbers.  Every fraction of the program (position sizes, drawdown,      *)
(* daily P&L, similarity confidence) is held in basis points, value *      *)
(* 10000, so 0.15 is 1500 and the 0.5 and 0.7 multipliers are exact on the *)
(* sizes used.  Python's None is the string "<None>", an absent dict key   *)
(* is "<missing>", an absent reason / decision is the empty tuple.         *)
(***************************************************************************)
EXTENDS Integers, Sequences, FiniteSets, TLC

VARIABLES
    \* ---- run_daily / run_agent_cycle (app/worker.py) ----
    run_pc,                  \* position of run_daily: "start", "loop", "done"
    agent_i,                 \* index of the loop of run_daily over the agents
    pc,                      \* position inside run_agent_cycle
    market,                  \* the market context of the running cycle
    similarity,              \* the similarity stats of the running cycle
    decision,                \* <<>> or <<Decision>> of the running cycle
    decision_log,            \* the decision_log dict of the running cycle
    trail,                   \* what the running cycle has done so far
    attempted,               \* agents whose cycle run_daily has started
    reported,                \* agents whose cycle ended in a caught exception
    faults,                  \* failures of the database, the scan or the file system so far
    \* ---- stores ----
    agent_decisions,         \* table agent_decisions
    agent_positions,         \* table agent_positions
    agent_performance_daily, \* table agent_performance_daily
    market_regime_archive,   \* table market_regime_archive
    archive_file,            \* symbol -> the lines of regime_archive/{symbol}_archive.jsonl
    broker,                  \* the module-level PaperBroker
    today,                   \* the calendar day of datetime.now()
    \* ---- a single call of a pure function ----
    call,                    \* <<>> before the arguments are drawn, <<arguments>> after
    ret                      \* <<>> before the call returns, <<result>> after

cycle_vars == <<run_pc, agent_i, pc, market, similarity, decision, decision_log,
                trail, attempted, reported, faults>>
store_vars == <<agent_decisions, agent_positions, agent_performance_daily,
                market_regime_archive, archive_file, broker, today>>
vars == <<run_pc, agent_i, pc, market, similarity, decision, decision_log,
          trail, attempted, reported, faults, agent_decisions, agent_positions,
          agent_performance_daily, market_regime_archive, archive_file, broker,
          today, call, ret>>

None == "<None>"
Missing == "<missing>"

\* dict.get(key): None for an absent key
Get(v) == IF v = Missing THEN None ELSE v
\* dict.get(key, default)
GetOr(v, default) == IF v = Missing THEN default ELSE v
\* dict.get(key, default) on a dict whose key may be absent
DictGet(d, key, default) == IF key \in DOMAIN d THEN d[key] ELSE default

Min(a, b) == IF b < a THEN b ELSE a

\* round(num / den) to the nearest integer, ties to even
RoundHalfEven(num, den) ==
    LET twice == (num * 2) \div den
        exact == (num * 2) % den = 0
        floor == twice \div 2
    IN  IF twice % 2 = 0 THEN floor
        ELSE IF exact /\ floor % 2 = 0 THEN floor
        ELSE floor + 1

(***************************************************************************)
(* app/config.py: the three profiles.  trade_conditions carries every flag *)
(* the agents read with .get(); a flag a profile does not set is FALSE.    *)
(* cooldown_after_losses None is 0 (both are falsy in `if cooldown:`).     *)
(***************************************************************************)
STEWARD_PROFILE ==
    [name |-> "Steward",
     max_drawdown_pct |-> 1000,
     daily_loss_limit_pct |-> 100,
     max_position_pct |-> 1500,
     max_positions |-> 2,
     allowed_friction |-> {"Low", "Moderate"},
     allowed_drift |-> {"None", "Minor"},
     trade_conditions |-> [similarity_threshold |-> 6000,
                           require_vol_compression |-> FALSE,
                           allow_balance_if_breaking |-> FALSE,
                           size_down_in_major_drift |-> FALSE],
     cooldown_after_losses |-> 0]

OPERATOR_PROFILE ==
    [name |-> "Operator",
     max_drawdown_pct |-> 1500,
     daily_loss_limit_pct |-> 200,
     max_position_pct |-> 2500,
     max_positions |-> 4,
     allowed_friction |-> {"Low", "Moderate"},
     allowed_drift |-> {"None", "Minor", "Moderate"},
     trade_conditions |-> [similarity_threshold |-> 5000,
                           require_vol_compression |-> TRUE,
                           allow_balance_if_breaking |-> TRUE,
                           size_down_in_major_drift |-> FALSE],
     cooldown_after_losses |-> 2]

HUNTER_PROFILE ==
    [name |-> "Hunter",
     max_drawdown_pct |-> 2000,
     daily_loss_limit_pct |-> 300,
     max_position_pct |-> 3500,
     max_positions |-> 5,
     allowed_friction |-> {"Low", "Moderate", "High"},
     allowed_drift |-> {"None", "Minor", "Moderate", "Major"},
     trade_conditions |-> [similarity_threshold |-> 4000,
                           require_vol_compression |-> FALSE,
                           allow_balance_if_breaking |-> FALSE,
                           size_down_in_major_drift |-> TRUE],
     cooldown_after_losses |-> 3]

\* run_daily's list of (agent_class, profile), in its order
AGENTS ==
    <<[agent_class |-> "StewardAgent", profile |-> STEWARD_PROFILE],
      [agent_class |-> "OperatorAgent", profile |-> OPERATOR_PROFILE],
      [agent_class |-> "HunterAgent", profile |-> HUNTER_PROFILE]>>
Profiles == {AGENTS[i].profile : i \in 1..Len(AGENTS)}

(***************************************************************************)
(* app/agents/base.py: Agent.allowed, the hard gate.  No subclass defines  *)
(* allowed, so every agent class resolves to this one.                     *)
(***************************************************************************)
allowed_drift_first_wrong(profile, m) ==
    LET drift == GetOr(m.drift, "None")
        friction == Get(m.friction)
    IN  IF friction \notin profile.allowed_friction
        THEN [allowed |-> FALSE, reason |-> <<"Market friction blocked", friction>>]
        ELSE IF drift \notin profile.allowed_drift
        THEN [allowed |-> FALSE, reason |-> <<"Narrative drift blocked", drift>>]
        ELSE [allowed |-> TRUE, reason |-> <<>>]

allowed_drift_by_level(profile, m) ==
    LET drift == GetOr(m.drift, "None")
        level == IF drift = "STABLE" THEN "None"
                 ELSE IF drift = "MINOR DRIFT" THEN "Minor"
                 ELSE IF drift = "MODERATE DRIFT" THEN "Moderate"
                 ELSE IF drift = "MAJOR DRIFT" THEN "Major"
                 ELSE drift
        friction == Get(m.friction)
    IN  IF level \notin profile.allowed_drift
        THEN [allowed |-> FALSE, reason |-> <<"Narrative drift blocked", drift>>]
        ELSE IF friction \notin profile.allowed_friction
        THEN [allowed |-> FALSE, reason |-> <<"Market friction blocked", friction>>]
        ELSE [allowed |-> TRUE, reason |-> <<>>]

allowed(profile, m) ==
    LET drift == GetOr(m.drift, "None")
        friction == Get(m.friction)
    IN  IF drift \notin profile.allowed_drift
        THEN [allowed |-> FALSE, reason |-> <<"Narrative drift blocked", drift>>]
        ELSE IF friction \notin profile.allowed_friction
        THEN [allowed |-> FALSE, reason |-> <<"Market friction blocked", friction>>]
        ELSE [allowed |-> TRUE, reason |-> <<>>]

(***************************************************************************)
(* app/agents/base.py: Agent.size_position.  size *= 0.5 and size *= 0.7   *)
(* in basis points.                                                        *)
(***************************************************************************)
size_position_no_compose(profile, m, base_size) ==
    LET size == IF Get(m.friction) = "High" THEN (base_size * 7) \div 10
                ELSE IF Get(m.drift) = "MAJOR DRIFT"
                        /\ profile.trade_conditions.size_down_in_major_drift
                THEN (base_size * 5) \div 10
                ELSE base_size
    IN  Min(size, profile.max_position_pct)

size_position_no_clamp(profile, m, base_size) ==
    LET s1 == IF Get(m.drift) = "MAJOR DRIFT"
                 /\ profile.trade_conditions.size_down_in_major_drift
              THEN (base_size * 5) \div 10 ELSE base_size
        s2 == IF Get(m.friction) = "High" THEN (s1 * 7) \div 10 ELSE s1
    IN  s2

size_position(profile, m, base_size) ==
    LET s1 == IF Get(m.drift) = "MAJOR DRIFT"
                 /\ profile.trade_conditions.size_down_in_major_drift
              THEN (base_size * 5) \div 10 ELSE base_size
        s2 == IF Get(m.friction) = "High" THEN (s1 * 7) \div 10 ELSE s1
    IN  Min(s2, profile.max_position_pct)

(***************************************************************************)
(* app/execution/risk.py: risk_check.  positions is the table              *)
(* agent_positions (a sequence of rows, closed_at = 0 for SQL null), perf  *)
(* the table agent_performance_daily (a set of rows, unique on agent_id,   *)
(* date), day is datetime.now()'s date.  The result is the pair            *)
(* (allowed, reason); a reason is a tuple of the message and the values    *)
(* formatted into it.                                                      *)
(***************************************************************************)
OpenRows(positions, agent_id) ==
    {i \in DOMAIN positions :
        positions[i].agent_id = agent_id /\ positions[i].closed_at = 0}

ClosedRows(positions, agent_id) ==
    {i \in DOMAIN positions :
        positions[i].agent_id = agent_id /\ positions[i].closed_at # 0}

\* .order("closed_at", desc=True).limit(n)
RecentTrades(positions, agent_id, n) ==
    LET closed == ClosedRows(positions, agent_id)
    IN  {i \in closed :
            Cardinality({j \in closed :
                positions[j].closed_at > positions[i].closed_at}) < n}

\* .eq("agent_id", agent_id).eq("date", today)
PerfToday(perf, agent_id, day) ==
    {r \in perf : r.agent_id = agent_id /\ r.date = day}

risk_check_drawdown_first(agent_profile, agent_id, trade, positions, perf, day) ==
    LET open == OpenRows(positions, agent_id)
        rows == PerfToday(perf, agent_id, day)
        row == CHOOSE r \in rows : TRUE
        cooldown == agent_profile.cooldown_after_losses
        recent == RecentTrades(positions, agent_id, cooldown)
    IN  IF rows # {} /\ row.drawdown >= agent_profile.max_drawdown_pct
        THEN [allowed |-> FALSE,
              reason |-> <<"Max drawdown breached", row.drawdown>>]
        ELSE IF trade.size_pct > agent_profile.max_position_pct
        THEN [allowed |-> FALSE,
              reason |-> <<"Position size exceeds max", trade.size_pct,
                           agent_profile.max_position_pct>>]
        ELSE IF Cardinality(open) >= agent_profile.max_positions
        THEN [allowed |-> FALSE,
              reason |-> <<"Max positions reached", Cardinality(open),
                           agent_profile.max_positions>>]
        ELSE IF rows # {} /\ row.daily_pnl <= 0 - agent_profile.daily_loss_limit_pct
        THEN [allowed |-> FALSE,
              reason |-> <<"Daily loss limit hit", row.daily_pnl>>]
        ELSE IF cooldown # 0 /\ Cardinality(recent) >= cooldown
                /\ \A i \in recent : positions[i].pnl < 0
        THEN [allowed |-> FALSE,
              reason |-> <<"Cooldown active after consecutive losses", cooldown>>]
        ELSE [allowed |-> TRUE, reason |-> <<"Passed">>]

risk_check_off_by_one(agent_profile, agent_id, trade, positions, perf, day) ==
    LET open == OpenRows(positions, agent_id)
        rows == PerfToday(perf, agent_id, day)
        row == CHOOSE r \in rows : TRUE
        cooldown == agent_profile.cooldown_after_losses
        recent == RecentTrades(positions, agent_id, cooldown)
    IN  IF trade.size_pct > agent_profile.max_position_pct
        THEN [allowed |-> FALSE,
              reason |-> <<"Position size exceeds max", trade.size_pct,
                           agent_profile.max_position_pct>>]
        ELSE IF Cardinality(open) > agent_profile.max_positions
        THEN [allowed |-> FALSE,
              reason |-> <<"Max positions reached", Cardinality(open),
                           agent_profile.max_positions>>]
        ELSE IF rows # {} /\ row.drawdown >= agent_profile.max_drawdown_pct
        THEN [allowed |-> FALSE,
              reason |-> <<"Max drawdown breached", row.drawdown>>]
        ELSE IF rows # {} /\ row.daily_pnl <= 0 - agent_profile.daily_loss_limit_pct
        THEN [allowed |-> FALSE,
              reason |-> <<"Daily loss limit hit", row.daily_pnl>>]
        ELSE IF cooldown # 0 /\ Cardinality(recent) >= cooldown
                /\ \A i \in recent : positions[i].pnl < 0
        THEN [allowed |-> FALSE,
              reason |-> <<"Cooldown active after consecutive losses", cooldown>>]
        ELSE [allowed |-> TRUE, reason |-> <<"Passed">>]

risk_check(agent_profile, agent_id, trade, positions, perf, day) ==
    LET open == OpenRows(positions, agent_id)
        rows == PerfToday(perf, agent_id, day)
        row == CHOOSE r \in rows : TRUE
        cooldown == agent_profile.cooldown_after_losses
        recent == RecentTrades(positions, agent_id, cooldown)
    IN  \* Position size check
        IF trade.size_pct > agent_profile.max_position_pct
        THEN [allowed |-> FALSE,
              reason |-> <<"Position size exceeds max", trade.size_pct,
                           agent_profile.max_position_pct>>]
        \* Check max open positions
        ELSE IF Cardinality(open) >= agent_profile.max_positions
        THEN [allowed |-> FALSE,
              reason |-> <<"Max positions reached", Cardinality(open),
                           agent_profile.max_positions>>]
        \* Check drawdown
        ELSE IF rows # {} /\ row.drawdown >= agent_profile.max_drawdown_pct
        THEN [allowed |-> FALSE,
              reason |-> <<"Max drawdown breached", row.drawdown>>]
        \* Check daily loss limit
        ELSE IF rows # {} /\ row.daily_pnl <= 0 - agent_profile.daily_loss_limit_pct
        THEN [allowed |-> FALSE,
              reason |-> <<"Daily loss limit hit", row.daily_pnl>>]
        \* Check loss cooldown
        ELSE IF cooldown # 0 /\ Cardinality(recent) >= cooldown
                /\ \A i \in recent : positions[i].pnl < 0
        THEN [allowed |-> FALSE,
              reason |-> <<"Cooldown active after consecutive losses", cooldown>>]
        ELSE [allowed |-> TRUE, reason |-> <<"Passed">>]

(***************************************************************************)
(* matrix_scanner/app.py: determine_primary_state.  r holds the fields of  *)
(* the scan result the function reads: market_states.long / .mid,          *)
(* layers.ma_system.regime / .signal, layers.technical.structure           *)
(* .balance_state, layers.technical.volume.climax_detected, and the        *)
(* touch_rank of the balance-zone analysis of the daily data.              *)
(***************************************************************************)
\* `"Fourth" in touch_rank` over the ranks _analyze_balance_zones returns
ContainsFourth(touch_rank) == touch_rank \in {"Fourth+ touch", "Fourth touch"}

Extended == {"breakout_up", "breakdown_down"}

determine_primary_state_trend_first(r) ==
    LET ma_regime == GetOr(r.ma_regime, "Neutral")
        signal == GetOr(r.signal, "None")
        balance_state == Get(r.balance_state)
        touch_rank == Get(r.touch_rank)
        fatigue == touch_rank # None /\ ContainsFourth(touch_rank)
        high_vol == r.climax_detected
        htf_aligned == Get(r.long) = Get(r.mid) /\ Get(r.long) \in {"Bullish", "Bearish"}
        price_extended == balance_state \in Extended
        ma_crossover_active == signal \in {"Long", "Short", "Exit Long", "Exit Short"}
        htf_conflict == Get(r.long) # Get(r.mid)
    IN  IF htf_aligned /\ ma_regime \in {"Bull", "Bear"} /\ price_extended
        THEN [state |-> "TRENDING",
              bias |-> IF ma_regime = "Bull" THEN "Bullish" ELSE "Bearish"]
        ELSE IF fatigue \/ (high_vol /\ balance_state \in Extended)
        THEN [state |-> "STRESSED",
              bias |-> IF balance_state = "breakout_up" THEN "Bullish"
                       ELSE IF balance_state = "breakdown_down" THEN "Bearish"
                       ELSE "Neutral"]
        ELSE IF ma_crossover_active \/ (htf_conflict /\ price_extended)
        THEN [state |-> "TRANSITION",
              bias |-> IF signal \in {"Long", "Short"}
                       THEN (IF signal = "Long" THEN "Bullish" ELSE "Bearish")
                       ELSE IF ma_regime \in {"Bull", "Bear"}
                       THEN (IF ma_regime = "Bull" THEN "Bullish" ELSE "Bearish")
                       ELSE "Neutral"]
        ELSE [state |-> "RANGE", bias |-> "Neutral"]

determine_primary_state_entries_only(r) ==
    LET ma_regime == GetOr(r.ma_regime, "Neutral")
        signal == GetOr(r.signal, "None")
        balance_state == Get(r.balance_state)
        touch_rank == Get(r.touch_rank)
        fatigue == touch_rank # None /\ ContainsFourth(touch_rank)
        high_vol == r.climax_detected
        htf_aligned == Get(r.long) = Get(r.mid) /\ Get(r.long) \in {"Bullish", "Bearish"}
        price_extended == balance_state \in Extended
        ma_crossover_active == signal \in {"Long", "Short"}
        htf_conflict == Get(r.long) # Get(r.mid)
    IN  IF fatigue \/ (high_vol /\ balance_state \in Extended)
        THEN [state |-> "STRESSED",
              bias |-> IF balance_state = "breakout_up" THEN "Bullish"
                       ELSE IF balance_state = "breakdown_down" THEN "Bearish"
                       ELSE "Neutral"]
        ELSE IF htf_aligned /\ ma_regime \in {"Bull", "Bear"} /\ price_extended
        THEN [state |-> "TRENDING",
              bias |-> IF ma_regime = "Bull" THEN "Bullish" ELSE "Bearish"]
        ELSE IF ma_crossover_active \/ (htf_conflict /\ price_extended)
        THEN [state |-> "TRANSITION",
              bias |-> IF signal \in {"Long", "Short"}
                       THEN (IF signal = "Long" THEN "Bullish" ELSE "Bearish")
                       ELSE IF ma_regime \in {"Bull", "Bear"}
                       THEN (IF ma_regime = "Bull" THEN "Bullish" ELSE "Bearish")
                       ELSE "Neutral"]
        ELSE [state |-> "RANGE", bias |-> "Neutral"]

determine_primary_state(r) ==
    LET ma_regime == GetOr(r.ma_regime, "Neutral")
        signal == GetOr(r.signal, "None")
        balance_state == Get(r.balance_state)
        touch_rank == Get(r.touch_rank)
        \* State 1: STRESSED
        fatigue == touch_rank # None /\ ContainsFourth(touch_rank)
        high_vol == r.climax_detected
        \* State 2: TRENDING
        htf_aligned == Get(r.long) = Get(r.mid) /\ Get(r.long) \in {"Bullish", "Bearish"}
        price_extended == balance_state \in Extended
        \* State 3: TRANSITION
        ma_crossover_active == signal \in {"Long", "Short", "Exit Long", "Exit Short"}
        htf_conflict == Get(r.long) # Get(r.mid)
    IN  IF fatigue \/ (high_vol /\ balance_state \in Extended)
        THEN [state |-> "STRESSED",
              bias |-> IF balance_state = "breakout_up" THEN "Bullish"
                       ELSE IF balance_state = "breakdown_down" THEN "Bearish"
                       ELSE "Neutral"]
        ELSE IF htf_aligned /\ ma_regime \in {"Bull", "Bear"} /\ price_extended
        THEN [state |-> "TRENDING",
              bias |-> IF ma_regime = "Bull" THEN "Bullish" ELSE "Bearish"]
        ELSE IF ma_crossover_active \/ (htf_conflict /\ price_extended)
        THEN [state |-> "TRANSITION",
              bias |-> IF signal \in {"Long", "Short"}
                       THEN (IF signal = "Long" THEN "Bullish" ELSE "Bearish")
                       ELSE IF ma_regime \in {"Bull", "Bear"}
                       THEN (IF ma_regime = "Bull" THEN "Bullish" ELSE "Bearish")
                       ELSE "Neutral"]
        \* State 4: RANGE, and the fallback
        ELSE [state |-> "RANGE", bias |-> "Neutral"]

(***************************************************************************)
(* matrix_scanner/regime_archive.py: detect_narrative_drift.  A change is  *)
(* the tuple (label, yesterday's value, today's value) that the code       *)
(* formats as "label", "yesterday -> today".                               *)
(***************************************************************************)
Change(label, t, y) == IF Get(t) # Get(y) THEN <<<<label, Get(y), Get(t)>>>> ELSE <<>>

DriftLevel(n) ==
    IF n >= 3 THEN "MAJOR DRIFT"
    ELSE IF n = 2 THEN "MODERATE DRIFT"
    ELSE IF n = 1 THEN "MINOR DRIFT"
    ELSE "STABLE"

detect_narrative_drift_five(today_snapshot, yesterday_snapshot) ==
    LET changes ==
            Change("State shift", today_snapshot.market_state,
                   yesterday_snapshot.market_state)
         \o Change("Friction change", today_snapshot.market_friction,
                   yesterday_snapshot.market_friction)
         \o Change("Structure change", today_snapshot.balance_state,
                   yesterday_snapshot.balance_state)
         \o Change("Volatility regime change", today_snapshot.volatility_state,
                   yesterday_snapshot.volatility_state)
         \o Change("Confluence change", today_snapshot.confluence_band,
                   yesterday_snapshot.confluence_band)
    IN  [level |-> DriftLevel(Len(changes)), changes |-> changes]

detect_narrative_drift(today_snapshot, yesterday_snapshot) ==
    LET changes ==
            Change("State shift", today_snapshot.market_state,
                   yesterday_snapshot.market_state)
         \o Change("Friction change", today_snapshot.market_friction,
                   yesterday_snapshot.market_friction)
         \o Change("Structure change", today_snapshot.balance_state,
                   yesterday_snapshot.balance_state)
         \o Change("Volatility regime change", today_snapshot.volatility_state,
                   yesterday_snapshot.volatility_state)
    IN  [level |-> DriftLevel(Len(changes)), changes |-> changes]

(***************************************************************************)
(* matrix_scanner/app.py: assess_market_friction.  r holds the fields of   *)
(* the scan result the function reads: layers.regime.macro,                *)
(* layers.ma_system.regime, layers.technical.structure.balance_state,      *)
(* layers.technical.balance_zone / .unfilled_gaps, the extreme flag of the *)
(* VIX reading and confluence_score.  A field the result lacks is absent   *)
(* from r, or holds Missing; the function returns (level, signal).         *)
(***************************************************************************)
Points(condition, n) == IF condition THEN n ELSE 0

friction_points_absent_is_clear(r) ==
    LET regime == GetOr(DictGet(r, "macro", Missing), "Clear")
        ma_regime == GetOr(DictGet(r, "ma_regime", Missing), "Clear")
        balance_state == Get(DictGet(r, "balance_state", Missing))
    IN  Points(regime \in {"Unknown", "Transitional"}, 1)
        + Points(ma_regime \in {"Neutral", "Unknown"}, 1)
        + Points(balance_state = "in_balance", 2)
        + Points(DictGet(r, "balance_zone", FALSE) /\ balance_state \in Extended, 1)
        + Points(DictGet(r, "unfilled_gaps", FALSE), 1)
        + Points(DictGet(r, "vix_extreme", FALSE), 1)
        + Points(DictGet(r, "confluence_score", 5) <= 4, 1)

friction_points(r) ==
    LET regime == GetOr(DictGet(r, "macro", Missing), "Unknown")
        ma_regime == GetOr(DictGet(r, "ma_regime", Missing), "Unknown")
        balance_state == Get(DictGet(r, "balance_state", Missing))
    IN  \* Regime clarity
        Points(regime \in {"Unknown", "Transitional"}, 1)
        + Points(ma_regime \in {"Neutral", "Unknown"}, 1)
        \* Balance overlap
        + Points(balance_state = "in_balance", 2)
        + Points(DictGet(r, "balance_zone", FALSE) /\ balance_state \in Extended, 1)
        \* Structural imbalance
        + Points(DictGet(r, "unfilled_gaps", FALSE), 1)
        \* Volatility state
        + Points(DictGet(r, "vix_extreme", FALSE), 1)
        \* Confluence sparsity
        + Points(DictGet(r, "confluence_score", 0) <= 4, 1)

assess_market_friction_low_at_three(r) ==
    IF friction_points(r) <= 3
    THEN [level |-> "Low",
          signal |-> "Structure is clean. Directional control is clear."]
    ELSE IF friction_points(r) <= 4
    THEN [level |-> "Moderate",
          signal |-> "Structure is mixed. Demand confirmation and tighter structure."]
    ELSE [level |-> "High",
          signal |-> "Overlapping structure. Expect chop and protect capital."]

assess_market_friction(r) ==
    \* Map points to friction level
    IF friction_points(r) <= 2
    THEN [level |-> "Low",
          signal |-> "Structure is clean. Directional control is clear."]
    ELSE IF friction_points(r) <= 4
    THEN [level |-> "Moderate",
          signal |-> "Structure is mixed. Demand confirmation and tighter structure."]
    ELSE [level |-> "High",
          signal |-> "Overlapping structure. Expect chop and protect capital."]

\* matrix_scanner/regime_archive.py: classify_volatility_state
classify_volatility_state(r) ==
    IF r.bollinger_squeeze = TRUE THEN "Compressed" ELSE "Normal"

(***************************************************************************)
(* app/market/spine.py: build_market_context, from the layers of one       *)
(* run_corexia_scan (matrix_scanner/app.py), which classifies the state    *)
(* and the bias first and the friction after.                              *)
(***************************************************************************)
build_market_context(r) ==
    LET primary == determine_primary_state(r)
    IN  [state |-> primary.state,
         friction |-> assess_market_friction(r).level,
         bias |-> primary.bias,
         balance_state |-> Get(r.balance_state),
         volatility_state |-> classify_volatility_state(r),
         current_price |-> r.current_price,
         drift |-> "None"]

(***************************************************************************)
(* app/market/spine.py: calculate_drift.  archive is the table             *)
(* market_regime_archive, day the date of datetime.now().                  *)
(***************************************************************************)
calculate_drift_any_date(archive, symbol, today_context, day) ==
    LET data == {row \in archive : row.symbol = symbol}
        yesterday_snapshot == CHOOSE row \in data : TRUE
        today_snapshot == [market_state |-> today_context.state,
                           market_friction |-> today_context.friction,
                           balance_state |-> today_context.balance_state,
                           volatility_state |-> today_context.volatility_state]
    IN  IF data = {} THEN "None"
        ELSE detect_narrative_drift(today_snapshot, yesterday_snapshot).level

calculate_drift(archive, symbol, today_context, day) ==
    LET yesterday == day - 1
        data == {row \in archive : row.symbol = symbol /\ row.date = yesterday}
        yesterday_snapshot == CHOOSE row \in data : TRUE
        today_snapshot == [market_state |-> today_context.state,
                           market_friction |-> today_context.friction,
                           balance_state |-> today_context.balance_state,
                           volatility_state |-> today_context.volatility_state]
    IN  IF data = {} THEN "None"
        ELSE detect_narrative_drift(today_snapshot, yesterday_snapshot).level

(***************************************************************************)
(* matrix_scanner/regime_archive.py: query_similar_regimes and             *)
(* build_regime_summary over the lines of the symbol's archive file;       *)
(* app/market/similarity.py: get_similarity_stats.  Percentages are in     *)
(* tenths of a percent (round(x, 1)), the confidence in basis points.      *)
(***************************************************************************)
\* forward_10d_return is <<>> for null and <<value>> once backfilled
Complete(s) == s.forward_10d_return # <<>>

\* q[-n:]: the last n elements, and the whole list for n = 0
Last(q, n) ==
    IF n = 0 \/ Len(q) <= n THEN q ELSE SubSeq(q, Len(q) - n + 1, Len(q))

\* the lines of {symbol}_archive.jsonl, none when the file does not exist
load_regime_archive(archive, symbol) ==
    IF symbol \in DOMAIN archive THEN archive[symbol] ELSE <<>>

query_similar_regimes_oldest(archive, symbol, current_state, current_friction, max_results) ==
    LET Similar(s) == /\ s.market_state = current_state
                      /\ s.market_friction = current_friction
                      /\ Complete(s)
        similar == SelectSeq(load_regime_archive(archive, symbol), Similar)
    IN  SubSeq(similar, 1, Min(max_results, Len(similar)))

query_similar_regimes(archive, symbol, current_state, current_friction, max_results) ==
    LET Similar(s) == /\ s.market_state = current_state
                      /\ s.market_friction = current_friction
                      /\ Complete(s)
    IN  Last(SelectSeq(load_regime_archive(archive, symbol), Similar), max_results)

\* round(count / total * 100, 1) in tenths of a percent, ties to even
RoundPct(count, total) ==
    LET twice == (count * 2000) \div total
        exact == (count * 2000) % total = 0
        floor == twice \div 2
    IN  IF twice % 2 = 0 THEN floor
        ELSE IF exact /\ floor % 2 = 0 THEN floor
        ELSE floor + 1

\* the k-th smallest forward_10d_return of df
KthReturn(df, k) ==
    LET values == {df[i].forward_10d_return[1] : i \in DOMAIN df}
        Below(v) == Cardinality({i \in DOMAIN df : df[i].forward_10d_return[1] < v})
        UpTo(v) == Cardinality({i \in DOMAIN df : df[i].forward_10d_return[1] <= v})
    IN  CHOOSE v \in values : Below(v) < k /\ k <= UpTo(v)

\* round(df["forward_10d_return"].median(), 2), returns in hundredths
Median(df) ==
    LET n == Len(df)
    IN  IF n % 2 = 1 THEN KthReturn(df, (n + 1) \div 2)
        ELSE RoundHalfEven(KthReturn(df, n \div 2) + KthReturn(df, n \div 2 + 1), 2)

ResolutionCount(df, resolution) ==
    Cardinality({i \in DOMAIN df : df[i].resolution_type = resolution})

build_regime_summary(df) ==
    LET total == Len(df)
        trend_count == ResolutionCount(df, "Trend Continuation")
        mean_reversion_count == ResolutionCount(df, "Mean Reversion")
        chop_count == ResolutionCount(df, "Chop")
    IN  [total_occurrences |-> total,
         trend_continuation_pct |-> RoundPct(trend_count, total),
         mean_reversion_pct |-> RoundPct(mean_reversion_count, total),
         chop_pct |-> RoundPct(chop_count, total),
         median_10d_return |-> Median(df)]

EmptySimilarity ==
    [total_occurrences |-> 0, trend_continuation_pct |-> 0, mean_reversion_pct |-> 0,
     chop_pct |-> 0, median_10d_return |-> 0, confidence |-> 0]

get_similarity_stats_per_hundred(archive, symbol, current_state, current_friction) ==
    LET df == query_similar_regimes(archive, symbol, current_state, current_friction, 50)
        summary == build_regime_summary(df)
    IN  IF df = <<>> THEN EmptySimilarity
        ELSE [total_occurrences |-> summary.total_occurrences,
              trend_continuation_pct |-> summary.trend_continuation_pct,
              mean_reversion_pct |-> summary.mean_reversion_pct,
              chop_pct |-> summary.chop_pct,
              median_10d_return |-> summary.median_10d_return,
              confidence |-> Min(summary.total_occurrences * 100, 10000)]

get_similarity_stats(archive, symbol, current_state, current_friction) ==
    LET df == query_similar_regimes(archive, symbol, current_state, current_friction, 50)
        summary == build_regime_summary(df)
    IN  IF df = <<>> THEN EmptySimilarity
        ELSE [total_occurrences |-> summary.total_occurrences,
              trend_continuation_pct |-> summary.trend_continuation_pct,
              mean_reversion_pct |-> summary.mean_reversion_pct,
              chop_pct |-> summary.chop_pct,
              median_10d_return |-> summary.median_10d_return,
              \* Confidence = occurrences / 50 (capped at 1.0)
              confidence |-> Min(summary.total_occurrences * 200, 10000)]

(***************************************************************************)
(* app/agents/steward.py, operator.py, hunter.py: decide.  The result is   *)
(* the pair (decision, reason): decision is <<>> for None or <<Decision>>, *)
(* reason is <<>> for None or the tuple of the message and the values      *)
(* formatted into it.  sim is the dict of get_similarity_stats; a key it   *)
(* lacks reads as the default of similarity.get.                           *)
(***************************************************************************)
\* f"{confidence:.1%}": the percentage with one decimal, in tenths of a percent
FormatPct1(confidence) == RoundHalfEven(confidence, 10)

\* f"{confidence:.0%}": the percentage in whole percents
FormatPct0(confidence) == RoundHalfEven(confidence, 100)

Side_contrarian(bias) == IF bias = "Bullish" THEN "SHORT" ELSE "LONG"

Side(bias) == IF bias = "Bullish" THEN "LONG" ELSE "SHORT"

Decision(profile, m, side, rationale, confidence) ==
    [action |-> side, symbol |-> "SPY",
     size_pct |-> size_position(profile, m, profile.max_position_pct),
     rationale |-> rationale, confidence |-> confidence]

StewardAgent_decide_state_first(profile, m, sim) ==
    LET state == Get(m.state)
        bias == Get(m.bias)
        confidence == DictGet(sim, "confidence", 0)
        trend_pct == DictGet(sim, "trend_continuation_pct", 0)
    IN  IF state # "TRENDING"
        THEN [decision |-> <<>>, reason |-> <<"State not trending", state>>]
        ELSE IF confidence < profile.trade_conditions.similarity_threshold
        THEN [decision |-> <<>>,
              reason |-> <<"Historical support insufficient", FormatPct1(confidence)>>]
        ELSE IF trend_pct < 500
        THEN [decision |-> <<>>, reason |-> <<"Trend continuation weak", trend_pct>>]
        ELSE IF bias \notin {"Bullish", "Bearish"}
        THEN [decision |-> <<>>, reason |-> <<"Directional bias unclear">>]
        ELSE [decision |-> <<Decision(profile, m, Side(bias),
                                      <<"Trending", bias, FormatPct0(confidence)>>,
                                      confidence)>>,
              reason |-> <<>>]

StewardAgent_decide(profile, m, sim) ==
    LET state == Get(m.state)
        bias == Get(m.bias)
        confidence == DictGet(sim, "confidence", 0)
        trend_pct == DictGet(sim, "trend_continuation_pct", 0)
    IN  \* Similarity threshold
        IF confidence < profile.trade_conditions.similarity_threshold
        THEN [decision |-> <<>>,
              reason |-> <<"Historical support insufficient", FormatPct1(confidence)>>]
        \* State requirements
        ELSE IF state # "TRENDING"
        THEN [decision |-> <<>>, reason |-> <<"State not trending", state>>]
        \* Must favor trend continuation
        ELSE IF trend_pct < 500
        THEN [decision |-> <<>>, reason |-> <<"Trend continuation weak", trend_pct>>]
        \* Determine direction
        ELSE IF bias \notin {"Bullish", "Bearish"}
        THEN [decision |-> <<>>, reason |-> <<"Directional bias unclear">>]
        ELSE [decision |-> <<Decision(profile, m, Side(bias),
                                      <<"Trending", bias, FormatPct0(confidence)>>,
                                      confidence)>>,
              reason |-> <<>>]

OperatorAgent_decide(profile, m, sim) ==
    LET state == Get(m.state)
        volatility == Get(m.volatility_state)
        bias == Get(m.bias)
        confidence == DictGet(sim, "confidence", 0)
        balance_state == Get(m.balance_state)
    IN  \* Similarity threshold
        IF confidence < profile.trade_conditions.similarity_threshold
        THEN [decision |-> <<>>,
              reason |-> <<"Similarity below threshold", FormatPct1(confidence)>>]
        \* State requirements: TRANSITION or TRENDING, or a breakout from balance
        ELSE IF /\ state \notin {"TRANSITION", "TRENDING"}
                /\ ~(/\ profile.trade_conditions.allow_balance_if_breaking
                     /\ balance_state \in {"breakout_up", "breakdown_down"})
        THEN [decision |-> <<>>, reason |-> <<"State not suitable", state>>]
        \* Volatility check
        ELSE IF /\ profile.trade_conditions.require_vol_compression
                /\ volatility \notin {"Compressed", "Expanding"}
        THEN [decision |-> <<>>,
              reason |-> <<"Volatility state not compressed", volatility>>]
        \* Determine direction
        ELSE IF bias \notin {"Bullish", "Bearish"}
        THEN [decision |-> <<>>, reason |-> <<"Directional bias unclear">>]
        ELSE [decision |-> <<Decision(profile, m, Side(bias),
                                      <<"Transition", bias, volatility>>, confidence)>>,
              reason |-> <<>>]

HunterAgent_decide_flat_abstains(profile, m, sim) ==
    LET state == Get(m.state)
        volatility == Get(m.volatility_state)
        bias == Get(m.bias)
        confidence == DictGet(sim, "confidence", 0)
        volatility_trigger == \/ volatility = "Compressed"
                              \/ state = "STRESSED"
                              \/ state = "TRANSITION"
        side == IF bias = "Bullish" THEN "LONG"
                ELSE IF bias = "Bearish" THEN "SHORT" ELSE "FLAT"
    IN  IF confidence < profile.trade_conditions.similarity_threshold
        THEN [decision |-> <<>>,
              reason |-> <<"Even Hunter requires minimum similarity",
                           FormatPct1(confidence)>>]
        ELSE IF ~volatility_trigger
        THEN [decision |-> <<>>,
              reason |-> <<"Volatility state not suitable for Hunter", volatility>>]
        ELSE IF bias = "Neutral" /\ state # "STRESSED"
        THEN [decision |-> <<>>,
              reason |-> <<"No directional bias in non-stressed environment">>]
        ELSE IF side = "FLAT"
        THEN [decision |-> <<>>, reason |-> <<>>]
        ELSE [decision |-> <<Decision(profile, m, side,
                                      <<"Volatility play", bias, state>>, confidence)>>,
              reason |-> <<>>]

HunterAgent_decide(profile, m, sim) ==
    LET state == Get(m.state)
        volatility == Get(m.volatility_state)
        bias == Get(m.bias)
        confidence == DictGet(sim, "confidence", 0)
        volatility_trigger == \/ volatility = "Compressed"
                              \/ state = "STRESSED"
                              \/ state = "TRANSITION"
        side == IF bias = "Bullish" THEN "LONG"
                ELSE IF bias = "Bearish" THEN "SHORT" ELSE "FLAT"
    IN  \* Similarity threshold
        IF confidence < profile.trade_conditions.similarity_threshold
        THEN [decision |-> <<>>,
              reason |-> <<"Even Hunter requires minimum similarity",
                           FormatPct1(confidence)>>]
        \* Volatility preference
        ELSE IF ~volatility_trigger
        THEN [decision |-> <<>>,
              reason |-> <<"Volatility state not suitable for Hunter", volatility>>]
        \* Direction
        ELSE IF bias = "Neutral" /\ state # "STRESSED"
        THEN [decision |-> <<>>,
              reason |-> <<"No directional bias in non-stressed environment">>]
        ELSE IF side = "FLAT"
        THEN [decision |-> <<>>, reason |-> <<"No directional conviction">>]
        ELSE [decision |-> <<Decision(profile, m, side,
                                      <<"Volatility play", bias, state>>, confidence)>>,
              reason |-> <<>>]

\* agent = agent_class(profile); agent.decide(market, similarity)
decide(agent_class, profile, m, sim) ==
    CASE agent_class = "StewardAgent" -> StewardAgent_decide(profile, m, sim)
      [] agent_class = "OperatorAgent" -> OperatorAgent_decide(profile, m, sim)
      [] agent_class = "HunterAgent" -> HunterAgent_decide(profile, m, sim)

(***************************************************************************)
(* app/execution/paper_broker.py: PaperBroker.execute, on the single       *)
(* module-level broker: the position of the symbol is overwritten, the     *)
(* order is appended.                                                      *)
(***************************************************************************)
execute(b, trade, current_price) ==
    LET execution == [symbol |-> trade.symbol, side |-> trade.action,
                      size_pct |-> trade.size_pct, entry_price |-> current_price,
                      status |-> "FILLED"]
        position == [symbol |-> trade.symbol, side |-> trade.action,
                     size_pct |-> trade.size_pct, entry_price |-> current_price]
        others == SelectSeq(b.positions, LAMBDA p : p.symbol # trade.symbol)
    IN  [positions |-> Append(others, position),
         orders |-> Append(b.orders, execution)]

(***************************************************************************)
(* app/logging/performance.py: update_daily_performance, the row it        *)
(* upserts.  Equity is in account currency, P&L of a closed row in         *)
(* percent, daily_pnl and drawdown in basis points.                        *)
(***************************************************************************)
CAPITAL_START == 10000

RECURSIVE SumOver(_, _)
SumOver(f, S) ==
    IF S = {} THEN 0
    ELSE LET i == CHOOSE j \in S : TRUE IN f[i] + SumOver(f, S \ {i})

Max(a, b) == IF a < b THEN b ELSE a

LatestPerf(perf, agent_id) ==
    {r \in perf : /\ r.agent_id = agent_id
                  /\ \A q \in perf : q.agent_id = agent_id => q.date <= r.date}

performance_row_peak_tracking(positions, perf, agent_id, capital_start, day) ==
    LET total_pnl == SumOver([i \in DOMAIN positions |-> positions[i].pnl],
                             ClosedRows(positions, agent_id))
        exposure_pct == SumOver([i \in DOMAIN positions |-> positions[i].size_pct],
                                OpenRows(positions, agent_id))
        equity == capital_start + (capital_start * total_pnl) \div 100
        peak_equity == Max(equity, capital_start)
        drawdown == IF peak_equity > 0
                    THEN Max(0, ((peak_equity - equity) * 10000) \div peak_equity)
                    ELSE 0
        latest == LatestPerf(perf, agent_id)
        yesterday_equity == IF latest # {} THEN (CHOOSE r \in latest : TRUE).equity
                            ELSE capital_start
        daily_pnl == IF yesterday_equity > 0
                     THEN ((equity - yesterday_equity) * 10000) \div yesterday_equity
                     ELSE 0
    IN  [agent_id |-> agent_id, date |-> day, equity |-> equity,
         daily_pnl |-> daily_pnl, drawdown |-> drawdown,
         exposure_pct |-> exposure_pct]

performance_row(positions, perf, agent_id, capital_start, day) ==
    LET total_pnl == SumOver([i \in DOMAIN positions |-> positions[i].pnl],
                             ClosedRows(positions, agent_id))
        exposure_pct == SumOver([i \in DOMAIN positions |-> positions[i].size_pct],
                                OpenRows(positions, agent_id))
        equity == capital_start + (capital_start * total_pnl) \div 100
        peak_equity == equity
        drawdown == IF peak_equity > 0
                    THEN Max(0, ((peak_equity - equity) * 10000) \div peak_equity)
                    ELSE 0
        latest == LatestPerf(perf, agent_id)
        yesterday_equity == IF latest # {} THEN (CHOOSE r \in latest : TRUE).equity
                            ELSE capital_start
        daily_pnl == IF yesterday_equity > 0
                     THEN ((equity - yesterday_equity) * 10000) \div yesterday_equity
                     ELSE 0
    IN  [agent_id |-> agent_id, date |-> day, equity |-> equity,
         daily_pnl |-> daily_pnl, drawdown |-> drawdown,
         exposure_pct |-> exposure_pct]

\* .upsert(perf_data, on_conflict="agent_id,date")
Upsert(perf, row) ==
    {r \in perf : ~(r.agent_id = row.agent_id /\ r.date = row.date)} \cup {row}

(***************************************************************************)
(* The rest state of the worker and the stores: what a specification of a  *)
(* single function call leaves untouched.                                  *)
(***************************************************************************)
NoMarket ==
    [state |-> None, friction |-> None, bias |-> None, balance_state |-> None,
     volatility_state |-> None, current_price |-> None, drift |-> "None"]
NoSimilarity == EmptySimilarity
\* texts of the decision_log dict are tuples: <<>> for None, else the message
\* and the values formatted into it; timestamp is the ordinal of the cycle
NoLog == [agent_id |-> None, timestamp |-> 0, intent |-> <<>>,
          proposed_action |-> <<>>, blocked_reason |-> <<>>]
NewBroker == [positions |-> <<>>, orders |-> <<>>]

WorkerAtRest ==
    /\ run_pc = "start" /\ agent_i = 1 /\ pc = "idle"
    /\ market = NoMarket /\ similarity = NoSimilarity
    /\ decision = <<>> /\ decision_log = NoLog
    /\ trail = <<>> /\ attempted = <<>> /\ reported = <<>> /\ faults = 0

ArchiveSymbols == {"SPY", "QQQ"}

NoArchiveFiles == [symbol \in ArchiveSymbols |-> <<>>]

EmptyStores ==
    /\ agent_decisions = <<>> /\ agent_positions = <<>>
    /\ agent_performance_daily = {} /\ market_regime_archive = {}
    /\ archive_file = NoArchiveFiles /\ broker = NewBroker /\ today = 1

(***************************************************************************)
(* SpecAllowed: one call of Agent.allowed on any profile and any market    *)
(* dict (drift and friction present, absent, or a value no profile lists). *)
(***************************************************************************)
DriftInputs == {Missing, "None", "STABLE", "MINOR DRIFT", "MODERATE DRIFT",
                "MAJOR DRIFT", "Minor", "Moderate", "Major"}
FrictionInputs == {Missing, "Low", "Moderate", "High", "Unknown"}

AllowedInputs ==
    {[profile |-> p, market |-> [drift |-> d, friction |-> f]] :
                    p \in Profiles, d \in DriftInputs, f \in FrictionInputs}

InitAllowed == call = <<>> /\ ret = <<>> /\ WorkerAtRest /\ EmptyStores

DrawAllowed ==
    /\ call = <<>>
    /\ \E c \in AllowedInputs : call' = <<c>>
    /\ UNCHANGED <<ret, cycle_vars, store_vars>>

CallAllowed ==
    /\ call # <<>> /\ ret = <<>>
    /\ ret' = <<allowed(call[1].profile, call[1].market)>>
    /\ UNCHANGED <<call, cycle_vars, store_vars>>

NextAllowed == DrawAllowed \/ CallAllowed

SpecAllowed == InitAllowed /\ [][NextAllowed]_vars

\* C3: allowed() returns (true, no reason) iff the drift (an absent drift
\* counting as "None") is in allowed_drift and the friction is in
\* allowed_friction; otherwise (false, reason), the drift reason first.
C3_AllowedIffDriftAndFrictionListed ==
    ret # <<>> =>
        LET p == call[1].profile
            d == IF call[1].market.drift = Missing THEN "None" ELSE call[1].market.drift
            f == IF call[1].market.friction = Missing THEN None ELSE call[1].market.friction
            r == ret[1]
        IN  /\ r.allowed <=> (d \in p.allowed_drift /\ f \in p.allowed_friction)
            /\ r.allowed => r.reason = <<>>
            /\ d \notin p.allowed_drift
                  => r.reason = <<"Narrative drift blocked", d>>
            /\ (d \in p.allowed_drift /\ f \notin p.allowed_friction)
                  => r.reason = <<"Market friction blocked", f>>

\* both checks fail and the drift reason is the one reported
C3_Witness ==
    /\ ret # <<>>
    /\ call[1].market.drift \notin call[1].profile.allowed_drift
    /\ call[1].market.friction \notin call[1].profile.allowed_friction
    /\ call[1].market.drift # Missing
    /\ ret[1].reason[1] = "Narrative drift blocked"

(***************************************************************************)
(* SpecSize: one call of Agent.size_position on any profile, market and    *)
(* base size (negative, zero, below and above the profile's maximum).      *)
(***************************************************************************)
MaxBaseK == 40
BaseSizes == {k * 100 : k \in (0 - MaxBaseK)..MaxBaseK}
SizeDrifts == {Missing, "None", "STABLE", "MINOR DRIFT", "MODERATE DRIFT", "MAJOR DRIFT"}
SizeFrictions == {Missing, "Low", "Moderate", "High"}

SizeInputs ==
    {[profile |-> p, market |-> [drift |-> d, friction |-> f],
                  base_size |-> b] :
                    p \in Profiles, d \in SizeDrifts, f \in SizeFrictions,
                    b \in BaseSizes}

InitSize == call = <<>> /\ ret = <<>> /\ WorkerAtRest /\ EmptyStores

DrawSize ==
    /\ call = <<>>
    /\ \E c \in SizeInputs : call' = <<c>>
    /\ UNCHANGED <<ret, cycle_vars, store_vars>>

CallSize ==
    /\ call # <<>> /\ ret = <<>>
    /\ ret' = <<size_position(call[1].profile, call[1].market, call[1].base_size)>>
    /\ UNCHANGED <<call, cycle_vars, store_vars>>

NextSize == DrawSize \/ CallSize

SpecSize == InitSize /\ [][NextSize]_vars

\* C7: size_position never returns more than the profile's max_position_pct.
C7_SizeAtMostMaxPosition ==
    ret # <<>> => ret[1] <= call[1].profile.max_position_pct

\* a base above the maximum, returned clamped
C7_Witness ==
    /\ ret # <<>>
    /\ call[1].base_size > call[1].profile.max_position_pct
    /\ call[1].market.friction = "Low"
    /\ ret[1] = call[1].profile.max_position_pct

\* C8: size_position = min(base * d * f, max_position_pct), d = 0.5 under
\* MAJOR DRIFT when the profile sets size_down_in_major_drift (else 1),
\* f = 0.7 under High friction (else 1); for base >= 0 never above base.
C8_SizeIsClampedProduct ==
    ret # <<>> =>
        LET p == call[1].profile
            d == IF call[1].market.drift = "MAJOR DRIFT"
                    /\ p.trade_conditions.size_down_in_major_drift
                 THEN 5 ELSE 10
            f == IF call[1].market.friction = "High" THEN 7 ELSE 10
            product == (call[1].base_size * d * f) \div 100
        IN  /\ ret[1] = (IF product < p.max_position_pct
                         THEN product ELSE p.max_position_pct)
            /\ call[1].base_size >= 0 => ret[1] <= call[1].base_size

\* Major drift and High friction together: base * 0.5 * 0.7, below the clamp
C8_Witness ==
    /\ ret # <<>>
    /\ call[1].profile.trade_conditions.size_down_in_major_drift
    /\ call[1].market.drift = "MAJOR DRIFT"
    /\ call[1].market.friction = "High"
    /\ call[1].base_size = call[1].profile.max_position_pct
    /\ ret[1] * 100 = call[1].base_size * 35

(***************************************************************************)
(* app/supabase_client.py: get_agent_id, the id of the agents row of that  *)
(* name (the lookup that finds no row raises and is an exception of the    *)
(* cycle).                                                                 *)
(***************************************************************************)
get_agent_id(agent_name) ==
    CASE agent_name = "Steward" -> "uuid-steward"
      [] agent_name = "Operator" -> "uuid-operator"
      [] agent_name = "Hunter" -> "uuid-hunter"

(***************************************************************************)
(* SpecRisk: one call of risk_check on any profile, any proposed size and  *)
(* any persisted state of the agent: n_open open rows, closed trades with  *)
(* the P&Ls pnls (oldest first, closed_at = position in pnls), today's     *)
(* performance row or none, and, with noise, rows of another agent that    *)
(* alone would trip every check.                                           *)
(***************************************************************************)
MaxOpen == 5
MaxClosed == 4

PositionRow(agent_id, closed_at, pnl) ==
    [agent_id |-> agent_id, symbol |-> "SPY", side |-> "LONG", size_pct |-> 1000,
     closed_at |-> closed_at, pnl |-> pnl]

OtherAgentRows ==
    [i \in 1..6 |-> PositionRow("uuid-other", 0, 0)]
    \o [i \in 1..3 |-> PositionRow("uuid-other", 100 + i, -1)]

PositionsTable(agent_id, n_open, pnls, noise) ==
    (IF noise THEN OtherAgentRows ELSE <<>>)
    \o [i \in 1..Len(pnls) |-> PositionRow(agent_id, i, pnls[i])]
    \o [i \in 1..n_open |-> PositionRow(agent_id, 0, 0)]

PerfRow(agent_id, day, drawdown, daily_pnl) ==
    [agent_id |-> agent_id, date |-> day, equity |-> 10000,
     daily_pnl |-> daily_pnl, drawdown |-> drawdown]

PerfTable(agent_id, day, row, noise) ==
    (IF noise THEN {PerfRow("uuid-other", day, 9000, -9000),
                    PerfRow(agent_id, day - 1, 9000, -9000)} ELSE {})
    \cup {PerfRow(agent_id, day, row[i][1], row[i][2]) : i \in DOMAIN row}

PnlSeqs == UNION {[1..n -> {-1, 0}] : n \in 0..MaxClosed}

PerfInputs(p) ==
    {<<>>} \cup
    {<<<<p.max_drawdown_pct + dd, dp - p.daily_loss_limit_pct>>>> :
        dd \in {0 - p.max_drawdown_pct, -1, 0}, dp \in {0, 1, 50}}

RiskInputsOf(p) ==
    {[profile |-> p, size_pct |-> p.max_position_pct + ds, n_open |-> n,
      pnls |-> q, perf |-> pr, noise |-> nz] :
        ds \in {-100, 0, 100}, n \in 0..MaxOpen, q \in PnlSeqs,
        pr \in PerfInputs(p), nz \in BOOLEAN}

InitRisk == call = <<>> /\ ret = <<>> /\ WorkerAtRest /\ EmptyStores

DrawRisk ==
    /\ call = <<>>
    /\ \E p \in Profiles : \E c \in RiskInputsOf(p) : call' = <<c>>
    /\ UNCHANGED <<ret, cycle_vars, store_vars>>

CallRisk ==
    /\ call # <<>> /\ ret = <<>>
    /\ LET id == get_agent_id(call[1].profile.name)
       IN  ret' = <<risk_check(call[1].profile, id, [size_pct |-> call[1].size_pct],
                               PositionsTable(id, call[1].n_open, call[1].pnls, call[1].noise),
                               PerfTable(id, today, call[1].perf, call[1].noise), today)>>
    /\ UNCHANGED <<call, cycle_vars, store_vars>>

NextRisk == DrawRisk \/ CallRisk

SpecRisk == InitRisk /\ [][NextRisk]_vars

\* the five violations, stated on the arguments
SizeViolated == call[1].size_pct > call[1].profile.max_position_pct
CountViolated == call[1].n_open >= call[1].profile.max_positions
DrawdownViolated ==
    call[1].perf # <<>> /\ call[1].perf[1][1] >= call[1].profile.max_drawdown_pct
DailyLossViolated ==
    call[1].perf # <<>> /\ call[1].perf[1][2] <= 0 - call[1].profile.daily_loss_limit_pct
CooldownViolated ==
    LET n == call[1].profile.cooldown_after_losses
        len == Len(call[1].pnls)
    IN  /\ n # 0
        /\ len >= n
        /\ \A i \in (len - n + 1)..len : call[1].pnls[i] < 0

\* C4: with several checks violated, the reason is that of the earliest one
\* in the order position size, open-position count, drawdown, daily loss,
\* loss-streak cooldown.
C4_EarliestViolationIsReported ==
    ret # <<>> =>
        LET msg == ret[1].reason[1]
        IN  /\ SizeViolated => msg = "Position size exceeds max"
            /\ (~SizeViolated /\ CountViolated) => msg = "Max positions reached"
            /\ (~SizeViolated /\ ~CountViolated /\ DrawdownViolated)
                  => msg = "Max drawdown breached"
            /\ (~SizeViolated /\ ~CountViolated /\ ~DrawdownViolated
                /\ DailyLossViolated) => msg = "Daily loss limit hit"
            /\ (~SizeViolated /\ ~CountViolated /\ ~DrawdownViolated
                /\ ~DailyLossViolated /\ CooldownViolated)
                  => msg = "Cooldown active after consecutive losses"

\* size and drawdown both violated, the size violation reported
C4_Witness ==
    /\ ret # <<>>
    /\ SizeViolated /\ DrawdownViolated
    /\ ret[1].reason = <<"Position size exceeds max", call[1].size_pct,
                         call[1].profile.max_position_pct>>

\* C5: allowed = true iff none of the five checks is violated; the reason of
\* a pass is exactly "Passed" and that of a block never is.
C5_AllowedIffNoViolation ==
    ret # <<>> =>
        /\ ret[1].allowed <=>
              /\ call[1].size_pct <= call[1].profile.max_position_pct
              /\ call[1].n_open < call[1].profile.max_positions
              /\ ~DrawdownViolated
              /\ ~DailyLossViolated
              /\ ~CooldownViolated
        /\ ret[1].allowed => ret[1].reason = <<"Passed">>
        /\ ~ret[1].allowed => ret[1].reason # <<"Passed">>

\* a pass at every boundary: size = max, one slot left, a performance row
\* just inside both limits, a loss streak broken by the latest trade, and
\* another agent's rows that would trip every check
C5_Witness ==
    /\ ret # <<>>
    /\ ret[1].allowed
    /\ call[1].noise
    /\ call[1].size_pct = call[1].profile.max_position_pct
    /\ call[1].n_open = call[1].profile.max_positions - 1
    /\ call[1].perf # <<>>
    /\ call[1].perf[1][1] = call[1].profile.max_drawdown_pct - 1
    /\ call[1].perf[1][2] = 1 - call[1].profile.daily_loss_limit_pct
    /\ call[1].profile.cooldown_after_losses = 3
    /\ call[1].pnls = <<-1, -1, -1, 0>>

(***************************************************************************)
(* SpecState: one call of determine_primary_state on any scan result: each *)
(* field it reads present with any value its producer returns, or absent.  *)
(***************************************************************************)
HorizonInputs == {"Bullish", "Bearish", "Choppy", Missing}
RegimeInputs == {"Bull", "Bear", "Neutral", Missing}
SignalInputs == {"None", "Long", "Short", "Exit Long", "Exit Short", Missing}
BalanceInputs == {"none", "in_balance", "breakout_up", "breakdown_down", Missing}
TouchRankInputs == {None, "First touch", "Second touch", "Third touch",
                    "Fourth+ touch"}

StateInputs ==
    {[long |-> l, mid |-> m, ma_regime |-> g, signal |-> s, balance_state |-> b,
      touch_rank |-> t, climax_detected |-> c] :
        l \in HorizonInputs, m \in HorizonInputs, g \in RegimeInputs,
        s \in SignalInputs, b \in BalanceInputs, t \in TouchRankInputs,
        c \in BOOLEAN}

InitState == call = <<>> /\ ret = <<>> /\ WorkerAtRest /\ EmptyStores

DrawState ==
    /\ call = <<>>
    /\ \E c \in StateInputs : call' = <<c>>
    /\ UNCHANGED <<ret, cycle_vars, store_vars>>

CallState ==
    /\ call # <<>> /\ ret = <<>>
    /\ ret' = <<determine_primary_state(call[1])>>
    /\ UNCHANGED <<call, cycle_vars, store_vars>>

NextState == DrawState \/ CallState

SpecState == InitState /\ [][NextState]_vars

\* the triggers of the four states, stated on the arguments
StressedTrigger ==
    \/ call[1].touch_rank = "Fourth+ touch"
    \/ call[1].climax_detected
       /\ call[1].balance_state \in {"breakout_up", "breakdown_down"}
TrendingTrigger ==
    /\ call[1].long = call[1].mid
    /\ call[1].long \in {"Bullish", "Bearish"}
    /\ call[1].ma_regime \in {"Bull", "Bear"}
    /\ call[1].balance_state \in {"breakout_up", "breakdown_down"}

\* C9: an input with the STRESSED trigger (fourth-or-later touch, or volume
\* climax with a breakout / breakdown) classifies as STRESSED whatever else
\* holds, with bias the breakout direction or Neutral.
C9_StressedFirst ==
    (ret # <<>> /\ StressedTrigger) =>
        /\ ret[1].state = "STRESSED"
        /\ ret[1].bias = (CASE call[1].balance_state = "breakout_up" -> "Bullish"
                            [] call[1].balance_state = "breakdown_down" -> "Bearish"
                            [] OTHER -> "Neutral")

\* touch fatigue while long = mid = Bullish, a Bull regime and a breakout:
\* STRESSED, not TRENDING
C9_Witness ==
    /\ ret # <<>>
    /\ call[1].touch_rank = "Fourth+ touch"
    /\ TrendingTrigger
    /\ call[1].long = "Bullish" /\ call[1].ma_regime = "Bull"
    /\ call[1].balance_state = "breakout_up"
    /\ call[1].signal = "Long"
    /\ ret[1] = [state |-> "STRESSED", bias |-> "Bullish"]

(***************************************************************************)
(* SpecDrift: one call of detect_narrative_drift on any two snapshots: the *)
(* four compared fields present, null or absent, the other fingerprint     *)
(* fields equal or different.                                              *)
(***************************************************************************)
OtherFields ==
    {[confluence_band |-> "High", touch_rank |-> "First touch",
      htf_alignment |-> "Aligned"],
     [confluence_band |-> "Low", touch_rank |-> "Fourth+ touch",
      htf_alignment |-> "Conflicted"]}

Snapshot(s, f, b, v, o) ==
    [market_state |-> s, market_friction |-> f, balance_state |-> b,
     volatility_state |-> v, confluence_band |-> o.confluence_band,
     touch_rank |-> o.touch_rank, htf_alignment |-> o.htf_alignment]

Snapshots ==
    {Snapshot(s, f, b, v, o) :
        s \in {"TRENDING", "RANGE", Missing, None}, f \in {"Low", "High"},
        b \in {"in_balance", "breakout_up"}, v \in {"Compressed", "Normal"},
        o \in OtherFields}

InitDrift == call = <<>> /\ ret = <<>> /\ WorkerAtRest /\ EmptyStores

DrawDrift ==
    /\ call = <<>>
    /\ \E t \in Snapshots : \E y \in Snapshots :
          call' = <<[today |-> t, yesterday |-> y]>>
    /\ UNCHANGED <<ret, cycle_vars, store_vars>>

CallDrift ==
    /\ call # <<>> /\ ret = <<>>
    /\ ret' = <<detect_narrative_drift(call[1].today, call[1].yesterday)>>
    /\ UNCHANGED <<call, cycle_vars, store_vars>>

NextDrift == DrawDrift \/ CallDrift

SpecDrift == InitDrift /\ [][NextDrift]_vars

DriftDimensions ==
    {"market_state", "market_friction", "balance_state", "volatility_state"}

DimensionLabel(d) ==
    CASE d = "market_state" -> "State shift"
      [] d = "market_friction" -> "Friction change"
      [] d = "balance_state" -> "Structure change"
      [] d = "volatility_state" -> "Volatility regime change"

\* the value .get() sees: an absent key and a null are both None
Seen(v) == IF v \in {Missing, None} THEN None ELSE v

Mismatches(t, y) == {d \in DriftDimensions : Seen(t[d]) # Seen(y[d])}

WithOther(snap, o) ==
    [snap EXCEPT !.confluence_band = o.confluence_band,
                 !.touch_rank = o.touch_rank,
                 !.htf_alignment = o.htf_alignment]

\* C10: the level is STABLE / MINOR / MODERATE / MAJOR DRIFT for 0 / 1 / 2 /
\* 3 or 4 mismatches among the four dimensions, the change list has one entry
\* per mismatching dimension (none when STABLE), the level is the same with
\* the arguments swapped, and no other fingerprint field changes the result.
C10_DriftCountsFourDimensions ==
    ret # <<>> =>
        LET t == call[1].today
            y == call[1].yesterday
            r == ret[1]
            n == Cardinality(Mismatches(t, y))
        IN  /\ r.level = (CASE n = 0 -> "STABLE"
                            [] n = 1 -> "MINOR DRIFT"
                            [] n = 2 -> "MODERATE DRIFT"
                            [] n \in {3, 4} -> "MAJOR DRIFT")
            /\ Len(r.changes) = n
            /\ r.level = "STABLE" => r.changes = <<>>
            /\ \A d \in DriftDimensions :
                  d \in Mismatches(t, y) <=>
                      \E i \in 1..Len(r.changes) : r.changes[i][1] = DimensionLabel(d)
            /\ detect_narrative_drift(y, t).level = r.level
            /\ \A o1 \in OtherFields : \A o2 \in OtherFields :
                  detect_narrative_drift(WithOther(t, o1), WithOther(y, o2)) = r

\* three of the four dimensions differ, and so do the other fields
C10_Witness ==
    /\ ret # <<>>
    /\ Cardinality(Mismatches(call[1].today, call[1].yesterday)) = 3
    /\ call[1].today.confluence_band # call[1].yesterday.confluence_band
    /\ call[1].today.market_state = Missing
    /\ ret[1].level = "MAJOR DRIFT"
    /\ Len(ret[1].changes) = 3

(***************************************************************************)
(* app/logging/decisions.py: log_decision.  The insert into                *)
(* agent_decisions is wrapped in try/except: when it fails a warning is    *)
(* printed and the table is left as it was.                                *)
(***************************************************************************)
log_decision_twice(table, decision_data, inserted) ==
    IF inserted THEN Append(Append(table, decision_data), decision_data) ELSE table

log_decision(table, decision_data, inserted) ==
    IF inserted THEN Append(table, decision_data) ELSE table

(***************************************************************************)
(* app/worker.py: run_agent_cycle's branch after risk_check, and           *)
(* run_daily's try / except Exception around one cycle.                    *)
(***************************************************************************)
after_risk_check_unguarded(risk_ok) == "execute"

after_risk_check(risk_ok) == IF ~risk_ok THEN "log_decision" ELSE "execute"

on_exception_propagate(i) == [run_pc |-> "crashed", agent_i |-> i]

on_exception(i) == [run_pc |-> "loop", agent_i |-> i + 1]

(***************************************************************************)
(* What one daily run can meet.  The scan: the MA system pairs a Long      *)
(* signal with a Bull regime and a Short signal with a Bear regime         *)
(* (ma_system.py), balance_zone is derived from balance_state              *)
(* (technical_analysis.py); the weekly and daily horizon agree, the price  *)
(* is in balance or above it, the zone is untouched or touched four times, *)
(* gaps and the Bollinger squeeze are present or not.  These scans yield   *)
(* all four states, all three friction levels and both volatility states.  *)
(* The stores: agent_positions with the same number of open rows for each  *)
(* agent (nothing in the repository closes a position),                    *)
(* market_regime_archive with or without a row of yesterday, the archive   *)
(* file absent or backfilled with completed records.  A run meets at most  *)
(* MaxFaults failures of the database, the scan or the file system.        *)
(***************************************************************************)
MaxHeld == 2
MaxFaults == 1

MaSystem ==
    {<<"Bull", "None">>, <<"Bull", "Long">>, <<"Bull", "Exit Long">>,
     <<"Bear", "None">>, <<"Bear", "Short">>, <<"Bear", "Exit Short">>,
     <<"Neutral", "None">>, <<"Neutral", "Exit Long">>, <<"Neutral", "Exit Short">>}

ScanLayers ==
    {[long |-> h, mid |-> h, ma_regime |-> ma[1], signal |-> ma[2],
      balance_state |-> b, touch_rank |-> t, climax_detected |-> FALSE,
      macro |-> "Transitional",
      balance_zone |-> (b \in {"in_balance", "breakout_up", "breakdown_down"}),
      unfilled_gaps |-> gaps, vix_extreme |-> FALSE, confluence_score |-> 5,
      bollinger_squeeze |-> squeeze, current_price |-> 500] :
        h \in {"Bullish", "Bearish"},
        ma \in MaSystem,
        b \in {"in_balance", "breakout_up"},
        t \in {None, "Fourth+ touch"},
        gaps \in BOOLEAN, squeeze \in BOOLEAN}

MarketContexts == {build_market_context(r) : r \in ScanLayers}

ArchiveLine(symbol, day, state, friction, forward, resolution) ==
    [symbol |-> symbol, date |-> day,
     market_state |-> state, market_friction |-> friction,
     forward_10d_return |-> forward, resolution_type |-> resolution]

\* one line a day up to the day before the first run, the last two not yet
\* backfilled
BackfilledArchive ==
    [i \in 1..107 |->
        IF i <= 30 THEN ArchiveLine("SPY", i - 107, "TRENDING", "Low", <<2>>,
                                    "Trend Continuation")
        ELSE IF i <= 60 THEN ArchiveLine("SPY", i - 107, "TRENDING", "Moderate", <<0>>,
                                         "Chop")
        ELSE IF i <= 85 THEN ArchiveLine("SPY", i - 107, "TRANSITION", "Moderate", <<1>>,
                                         "Trend Continuation")
        ELSE IF i <= 105 THEN ArchiveLine("SPY", i - 107, "STRESSED", "High", <<-3>>,
                                          "Mean Reversion")
        ELSE ArchiveLine("SPY", i - 107, "RANGE", "Low", <<>>, None)]

RegimeRow(symbol, day, s, f, b, v) ==
    [symbol |-> symbol, date |-> day, market_state |-> s, market_friction |-> f,
     balance_state |-> b, volatility_state |-> v]

OpenPosition(agent_id, side, size_pct) ==
    [agent_id |-> agent_id, symbol |-> "SPY", side |-> side, size_pct |-> size_pct,
     closed_at |-> 0, pnl |-> None]

\* the open rows that earlier runs left: n of each agent, and no more of an
\* agent than the max_positions that its risk_check lets through
HeldPositions(n) ==
    LET slots == [i \in 1..(n * Len(AGENTS)) |->
                    [agent |-> AGENTS[((i - 1) % Len(AGENTS)) + 1],
                     nth |-> ((i - 1) \div Len(AGENTS)) + 1]]
        held == SelectSeq(slots, LAMBDA s : s.nth <= s.agent.profile.max_positions)
    IN  [i \in DOMAIN held |->
            OpenPosition(get_agent_id(held[i].agent.profile.name), "LONG", 1000)]

Init ==
    /\ WorkerAtRest
    /\ call = <<>> /\ ret = <<>>
    /\ agent_decisions = <<>>
    /\ \E n \in 0..MaxHeld : agent_positions = HeldPositions(n)
    /\ agent_performance_daily = {}
    /\ market_regime_archive \in
         {{}, {RegimeRow("SPY", 0, "TRENDING", "Low", "breakout_up", "Normal"),
               RegimeRow("QQQ", 0, "RANGE", "High", "in_balance", "Compressed")}}
    /\ archive_file \in {NoArchiveFiles,
                         [NoArchiveFiles EXCEPT !["SPY"] = BackfilledArchive]}
    /\ broker = NewBroker
    /\ today = 1

(***************************************************************************)
(* app/worker.py: run_daily and run_agent_cycle, one action per step.      *)
(* trail lists what the cycle in progress (or, between cycles, the cycle   *)
(* that just ended) has done.                                              *)
(***************************************************************************)
Agent == AGENTS[agent_i]
agent_name == Agent.profile.name
agent_id == get_agent_id(agent_name)

Did(event) == \E i \in DOMAIN trail : trail[i] = event

\* the locals of run_agent_cycle are gone when it returns or unwinds
Forgotten ==
    /\ market' = NoMarket /\ similarity' = NoSimilarity
    /\ decision' = <<>> /\ decision_log' = NoLog

\* a failure of the database, the scan or the file system: at most MaxFaults
\* of them in one run
Fault(failed) ==
    IF failed THEN faults < MaxFaults /\ faults' = faults + 1 ELSE faults' = faults

\* return from run_agent_cycle into the loop of run_daily
Return ==
    /\ pc' = "idle" /\ agent_i' = agent_i + 1 /\ Forgotten
    /\ UNCHANGED <<run_pc, attempted, reported>>

run_daily_begin ==
    /\ run_pc = "start"
    /\ run_pc' = "loop"
    /\ UNCHANGED <<faults, agent_i, pc, market, similarity, decision, decision_log, trail,
                   attempted, reported, store_vars, call, ret>>

run_agent_cycle_begin ==
    /\ run_pc = "loop" /\ pc = "idle" /\ agent_i <= Len(AGENTS)
    /\ attempted' = Append(attempted, agent_name)
    /\ trail' = <<>>
    /\ pc' = "get_agent_id"
    /\ UNCHANGED <<faults, run_pc, agent_i, market, similarity, decision, decision_log,
                   reported, store_vars, call, ret>>

step_get_agent_id ==
    /\ pc = "get_agent_id"
    /\ pc' = "build_market_context"
    /\ UNCHANGED <<faults, run_pc, agent_i, market, similarity, decision, decision_log,
                   trail, attempted, reported, store_vars, call, ret>>

step_build_market_context ==
    /\ pc = "build_market_context"
    /\ \E context \in MarketContexts : market' = context
    /\ pc' = "calculate_drift"
    /\ UNCHANGED <<faults, run_pc, agent_i, similarity, decision, decision_log, trail,
                   attempted, reported, store_vars, call, ret>>

step_calculate_drift ==
    /\ pc = "calculate_drift"
    /\ market' = [market EXCEPT
                    !.drift = calculate_drift(market_regime_archive, "SPY", market, today)]
    /\ pc' = "get_similarity_stats"
    /\ UNCHANGED <<faults, run_pc, agent_i, similarity, decision, decision_log, trail,
                   attempted, reported, store_vars, call, ret>>

step_get_similarity_stats ==
    /\ pc = "get_similarity_stats"
    /\ similarity' = get_similarity_stats(archive_file, "SPY", Get(market.state),
                                          Get(market.friction))
    /\ pc' = "allowed"
    /\ UNCHANGED <<faults, run_pc, agent_i, market, decision, decision_log, trail,
                   attempted, reported, store_vars, call, ret>>

\* agent.allowed(market), the decision_log dict, and the gate-blocked branch
step_allowed ==
    /\ pc = "allowed"
    /\ LET gate == allowed(Agent.profile, market)
       IN  IF ~gate.allowed
           THEN /\ decision_log' = [agent_id |-> agent_id,
                                    timestamp |-> Len(attempted),
                                    intent |-> <<"Blocked by drift/friction gate">>,
                                    proposed_action |-> <<>>,
                                    blocked_reason |-> gate.reason]
                /\ trail' = Append(trail, "allowed: False")
                /\ pc' = "log_decision"
           ELSE /\ decision_log' = [NoLog EXCEPT !.agent_id = agent_id,
                                                 !.timestamp = Len(attempted),
                                                 !.blocked_reason = gate.reason]
                /\ trail' = Append(trail, "allowed: True")
                /\ pc' = "decide"
    /\ UNCHANGED <<faults, run_pc, agent_i, market, similarity, decision, attempted,
                   reported, store_vars, call, ret>>

\* agent.decide(market, similarity), the decision-blocked and the abstain branch
step_decide ==
    /\ pc = "decide"
    /\ LET d == decide(Agent.agent_class, Agent.profile, market, similarity)
       IN  IF d.reason # <<>>
           THEN /\ decision_log' = [decision_log EXCEPT
                                      !.intent = <<"Blocked by decision logic">>,
                                      !.proposed_action = d.reason]
                /\ decision' = d.decision
                /\ trail' = Append(trail, "decide: blocked")
                /\ pc' = "log_decision"
           ELSE IF d.decision = <<>>
           THEN /\ decision_log' = [decision_log EXCEPT
                                      !.intent = <<"Abstained">>,
                                      !.proposed_action = <<"FLAT">>]
                /\ decision' = d.decision
                /\ trail' = Append(trail, "decide: abstain")
                /\ pc' = "log_decision"
           ELSE /\ decision' = d.decision
                /\ trail' = Append(trail, "decide: Decision")
                /\ pc' = "risk_check"
                /\ UNCHANGED decision_log
    /\ UNCHANGED <<faults, run_pc, agent_i, market, similarity, attempted, reported,
                   store_vars, call, ret>>

\* risk_check(profile, agent_id, decision) and the risk-blocked branch
step_risk_check ==
    /\ pc = "risk_check"
    /\ LET risk == risk_check(Agent.profile, agent_id, decision[1], agent_positions,
                              agent_performance_daily, today)
       IN  /\ pc' = after_risk_check(risk.allowed)
           /\ IF ~risk.allowed
              THEN /\ decision_log' = [decision_log EXCEPT
                                         !.intent = decision[1].rationale,
                                         !.proposed_action = <<decision[1].action,
                                                               decision[1].symbol>>,
                                         !.blocked_reason = risk.reason]
                   /\ trail' = Append(trail, "risk_check: False")
              ELSE /\ trail' = Append(trail, "risk_check: True")
                   /\ UNCHANGED decision_log
    /\ UNCHANGED <<faults, run_pc, agent_i, market, similarity, decision, attempted,
                   reported, store_vars, call, ret>>

\* broker.execute(decision, current_price) and the log fields of an execution
step_execute ==
    /\ pc = "execute"
    /\ broker' = execute(broker, decision[1], market.current_price)
    /\ decision_log' = [decision_log EXCEPT
                          !.intent = decision[1].rationale,
                          !.proposed_action = <<decision[1].action, decision[1].symbol>>]
    /\ trail' = Append(trail, "broker.execute")
    /\ pc' = "log_executed"
    /\ UNCHANGED <<faults, run_pc, agent_i, market, similarity, decision, attempted, reported,
                   agent_decisions, agent_positions, agent_performance_daily,
                   market_regime_archive, archive_file, today, call, ret>>

\* log_decision(decision_log): of a block or an abstention, then return
step_log_decision ==
    /\ pc = "log_decision"
    /\ \E inserted \in BOOLEAN :
          /\ Fault(~inserted)
          /\ agent_decisions' = log_decision(agent_decisions, decision_log, inserted)
          /\ trail' = Append(trail, IF inserted THEN "log_decision: inserted"
                                    ELSE "log_decision: failed")
    /\ Return
    /\ UNCHANGED <<agent_positions, agent_performance_daily, market_regime_archive,
                   archive_file, broker, today, call, ret>>

\* log_decision(decision_log) of an execution
step_log_executed ==
    /\ pc = "log_executed"
    /\ \E inserted \in BOOLEAN :
          /\ Fault(~inserted)
          /\ agent_decisions' = log_decision(agent_decisions, decision_log, inserted)
          /\ trail' = Append(trail, IF inserted THEN "log_decision: inserted"
                                    ELSE "log_decision: failed")
    /\ pc' = "insert_position"
    /\ UNCHANGED <<run_pc, agent_i, market, similarity, decision, decision_log,
                   attempted, reported, agent_positions, agent_performance_daily,
                   market_regime_archive, archive_file, broker, today, call, ret>>

\* supabase.table("agent_positions").insert(...)
step_insert_position ==
    /\ pc = "insert_position"
    /\ agent_positions' = Append(agent_positions,
            OpenPosition(agent_id, decision[1].action, decision[1].size_pct))
    /\ trail' = Append(trail, "agent_positions.insert")
    /\ pc' = "update_daily_performance"
    /\ UNCHANGED <<faults, run_pc, agent_i, market, similarity, decision, decision_log,
                   attempted, reported, agent_decisions, agent_performance_daily,
                   market_regime_archive, archive_file, broker, today, call, ret>>

\* update_daily_performance(agent_id, CAPITAL_START), whose upsert may fail
\* with a warning only, then return
step_update_daily_performance ==
    /\ pc = "update_daily_performance"
    /\ \E upserted \in BOOLEAN :
          /\ Fault(~upserted)
          /\ agent_performance_daily' =
                IF upserted
                THEN Upsert(agent_performance_daily,
                            performance_row(agent_positions, agent_performance_daily,
                                            agent_id, CAPITAL_START, today))
                ELSE agent_performance_daily
    /\ trail' = Append(trail, "cycle complete")
    /\ Return
    /\ UNCHANGED <<agent_decisions, agent_positions, market_regime_archive,
                   archive_file, broker, today, call, ret>>

\* a step that reads or writes a table, runs the scan or reads the archive
\* file raises; the exception unwinds run_agent_cycle into run_daily
RaisingSteps ==
    {"get_agent_id", "build_market_context", "calculate_drift", "get_similarity_stats",
     "risk_check", "insert_position", "update_daily_performance"}

step_raises ==
    /\ pc \in RaisingSteps
    /\ Fault(TRUE)
    /\ trail' = Append(trail, "raise")
    /\ reported' = Append(reported, agent_name)
    /\ run_pc' = on_exception(agent_i).run_pc
    /\ agent_i' = on_exception(agent_i).agent_i
    /\ pc' = "idle"
    /\ Forgotten
    /\ UNCHANGED <<attempted, store_vars, call, ret>>

run_daily_end ==
    /\ run_pc = "loop" /\ pc = "idle" /\ agent_i > Len(AGENTS)
    /\ run_pc' = "done"
    /\ UNCHANGED <<faults, agent_i, pc, market, similarity, decision, decision_log, trail,
                   attempted, reported, store_vars, call, ret>>

Next ==
    \/ run_daily_begin
    \/ run_agent_cycle_begin
    \/ step_get_agent_id
    \/ step_build_market_context
    \/ step_calculate_drift
    \/ step_get_similarity_stats
    \/ step_allowed
    \/ step_decide
    \/ step_risk_check
    \/ step_execute
    \/ step_log_decision
    \/ step_log_executed
    \/ step_insert_position
    \/ step_update_daily_performance
    \/ step_raises
    \/ run_daily_end

Spec == Init /\ [][Next]_vars

(***************************************************************************)
(* Properties of the cycle and of the daily run.                           *)
(***************************************************************************)
AgentNames == [i \in DOMAIN AGENTS |-> AGENTS[i].profile.name]

\* run_agent_cycle has returned or unwound; trail is the trail of that cycle
CycleEnded == pc = "idle" /\ attempted # <<>>

TerminalBranch ==
    \/ Did("allowed: False")
    \/ Did("decide: blocked")
    \/ Did("decide: abstain")
    \/ Did("risk_check: False")
    \/ Did("broker.execute")

LogCalls ==
    {i \in DOMAIN trail : trail[i] \in {"log_decision: inserted", "log_decision: failed"}}

\* the rows of agent_decisions written by the cycle that ran last
RecordsOfCycle ==
    {i \in DOMAIN agent_decisions :
        /\ agent_decisions[i].agent_id = get_agent_id(attempted[Len(attempted)])
        /\ agent_decisions[i].timestamp = Len(attempted)}

GatesPassed ==
    /\ Len(trail) >= 3
    /\ SubSeq(trail, 1, 3) = <<"allowed: True", "decide: Decision", "risk_check: True">>
    /\ allowed(Agent.profile, market).allowed
    /\ decision # <<>>
    /\ LET d == decide(Agent.agent_class, Agent.profile, market, similarity)
       IN  d.reason = <<>> /\ d.decision = decision
    /\ risk_check(Agent.profile, agent_id, decision[1], agent_positions,
                  agent_performance_daily, today).allowed

\* C2: every step that records an order in the broker or inserts a row into
\* agent_positions is taken by a cycle in which, in this order, allowed()
\* returned true, decide() returned a Decision and no block reason, and
\* risk_check returned allowed for that Decision.
C2_ExecuteOnlyAfterGates ==
    [][(broker' # broker \/ agent_positions' # agent_positions) => GatesPassed]_vars

C2_Witness ==
    /\ pc = "update_daily_performance"
    /\ Did("broker.execute") /\ Did("agent_positions.insert")
    /\ Len(broker.orders) = 1
    /\ agent_positions[Len(agent_positions)].agent_id = agent_id

\* C6: run_daily attempts Steward, Operator, Hunter in that order; a cycle
\* that raises is reported, the exception does not leave run_daily, and the
\* run ends only after all three cycles were attempted.
C6_EveryAgentAttemptedInOrder ==
    /\ run_pc # "crashed"
    /\ Len(attempted) <= Len(AgentNames)
    /\ attempted = SubSeq(AgentNames, 1, Len(attempted))
    /\ run_pc = "done" => attempted = AgentNames
    /\ CycleEnded /\ Did("raise") =>
          reported # <<>> /\ reported[Len(reported)] = attempted[Len(attempted)]

C6_Witness ==
    /\ run_pc = "done"
    /\ reported = <<"Steward">>
    /\ attempted = AgentNames
    /\ Len(agent_decisions) = 2

(***************************************************************************)
(* SpecCalcDrift: one call of calculate_drift(symbol, today_context) on a  *)
(* day, against any content of the table market_regime_archive, which      *)
(* holds at most one row per (date, symbol) (UNIQUE(date, symbol) in       *)
(* app/supabase_client.py).                                                *)
(***************************************************************************)
ArchiveDates == 0..1

ArchivedRegimes ==
    {[market_state |-> "TRENDING", market_friction |-> "Low",
      balance_state |-> "breakout_up", volatility_state |-> "Normal"],
     [market_state |-> "TRENDING", market_friction |-> "Moderate",
      balance_state |-> "breakout_up", volatility_state |-> "Compressed"],
     [market_state |-> "RANGE", market_friction |-> "High",
      balance_state |-> "in_balance", volatility_state |-> "Compressed"]}

ArchiveKeys == ArchiveSymbols \X ArchiveDates

\* every table over the keys: each (symbol, date) absent or stored once
ArchiveTables ==
    {{RegimeRow(k[1], k[2], t[k].market_state, t[k].market_friction,
                t[k].balance_state, t[k].volatility_state) :
        k \in {j \in ArchiveKeys : t[j] # <<>>}} :
     t \in [ArchiveKeys -> ArchivedRegimes \cup {<<>>}]}

TodayContexts ==
    {[state |-> s, friction |-> f, bias |-> "Bullish", balance_state |-> b,
      volatility_state |-> v, current_price |-> 500, drift |-> "None"] :
        s \in {"TRENDING", "RANGE"}, f \in {"Low", "High"},
        b \in {"breakout_up", "in_balance"}, v \in {"Normal", "Compressed"}}

InitCalcDrift == call = <<>> /\ ret = <<>> /\ WorkerAtRest /\ EmptyStores

DrawCalcDrift ==
    /\ call = <<>>
    /\ \E a \in ArchiveTables : \E s \in ArchiveSymbols :
       \E c \in TodayContexts : \E d \in 1..2 :
          call' = <<[archive |-> a, symbol |-> s, today_context |-> c, day |-> d]>>
    /\ UNCHANGED <<ret, cycle_vars, store_vars>>

CallCalcDrift ==
    /\ call # <<>> /\ ret = <<>>
    /\ ret' = <<calculate_drift(call[1].archive, call[1].symbol,
                                call[1].today_context, call[1].day)>>
    /\ UNCHANGED <<call, cycle_vars, store_vars>>

NextCalcDrift == DrawCalcDrift \/ CallCalcDrift

SpecCalcDrift == InitCalcDrift /\ [][NextCalcDrift]_vars

YesterdayRows ==
    {row \in call[1].archive :
        row.symbol = call[1].symbol /\ row.date = call[1].day - 1}

\* C11: calculate_drift returns "None" exactly when the archive holds no
\* record for (symbol, previous day); when one exists it returns one of
\* STABLE, MINOR DRIFT, MODERATE DRIFT, MAJOR DRIFT and never "None".
C11_NoneIffNoYesterdayRecord ==
    ret # <<>> =>
        /\ ret[1] = "None" <=> YesterdayRows = {}
        /\ YesterdayRows # {} =>
              ret[1] \in {"STABLE", "MINOR DRIFT", "MODERATE DRIFT", "MAJOR DRIFT"}

\* yesterday's record exists next to records of another day and another
\* symbol, and the drift is computed against it
C11_Witness ==
    /\ ret = <<"MAJOR DRIFT">>
    /\ YesterdayRows # {}
    /\ \E row \in call[1].archive : row.symbol # call[1].symbol
    /\ \E row \in call[1].archive :
          row.symbol = call[1].symbol /\ row.date # call[1].day - 1

(***************************************************************************)
(* SpecDecide: one call of agent.decide(market, similarity) for each of    *)
(* the three agents, on any market context (fields present or absent) and  *)
(* any similarity dict (with or without its keys).                         *)
(***************************************************************************)
ConfidenceLevels == {0, 3900, 4000, 4900, 5000, 5500, 5900, 6000, 10000}

TrendShares == {0, 499, 500, 1000}

SimilarityDicts ==
    {[total_occurrences |-> 0]}
    \cup {[confidence |-> c, trend_continuation_pct |-> t] :
            c \in ConfidenceLevels, t \in TrendShares}

DecideMarkets ==
    {[state |-> s, friction |-> fd[1], bias |-> b, balance_state |-> bs,
      volatility_state |-> v, current_price |-> 500, drift |-> fd[2]] :
        s \in {"TRENDING", "TRANSITION", "RANGE", "STRESSED", Missing},
        b \in {"Bullish", "Bearish", "Neutral", Missing},
        bs \in {"in_balance", "breakout_up", "breakdown_down", Missing},
        v \in {"Compressed", "Expanding", "Normal", Missing},
        fd \in {<<"Low", "None">>, <<"High", "MAJOR DRIFT">>}}

InitDecide == call = <<>> /\ ret = <<>> /\ WorkerAtRest /\ EmptyStores

DrawDecide ==
    /\ call = <<>>
    /\ \E i \in 1..Len(AGENTS) : \E m \in DecideMarkets : \E sim \in SimilarityDicts :
          call' = <<[agent_class |-> AGENTS[i].agent_class,
                     profile |-> AGENTS[i].profile,
                     market |-> m, similarity |-> sim]>>
    /\ UNCHANGED <<ret, cycle_vars, store_vars>>

CallDecide ==
    /\ call # <<>> /\ ret = <<>>
    /\ ret' = <<decide(call[1].agent_class, call[1].profile,
                       call[1].market, call[1].similarity)>>
    /\ UNCHANGED <<call, cycle_vars, store_vars>>

NextDecide == DrawDecide \/ CallDecide

SpecDecide == InitDecide /\ [][NextDecide]_vars

Decided(agent_class) == ret # <<>> /\ call[1].agent_class = agent_class

GivenConfidence == DictGet(call[1].similarity, "confidence", 0)

GivenTrendShare == DictGet(call[1].similarity, "trend_continuation_pct", 0)

\* C12: Steward.decide returns a Decision exactly when the confidence is at
\* least 0.60, the state is TRENDING, the trend share is at least 50 and the
\* bias is Bullish or Bearish: LONG for Bullish, SHORT for Bearish, size_pct
\* at most 0.15, confidence that of the similarity.  Otherwise it returns
\* (None, reason) with the reason of the first failing check, in the order
\* similarity, state, trend share, bias; confidence 0.55 gives
\* "Historical support insufficient: 55.0%".
C12_StewardDecision ==
    Decided("StewardAgent") =>
        LET state == Get(call[1].market.state)
            bias == Get(call[1].market.bias)
            passes == /\ GivenConfidence >= 6000
                      /\ state = "TRENDING"
                      /\ GivenTrendShare >= 500
                      /\ bias \in {"Bullish", "Bearish"}
            r == ret[1]
        IN  /\ r.decision # <<>> <=> passes
            /\ passes =>
                  /\ r.reason = <<>>
                  /\ bias = "Bullish" => r.decision[1].action = "LONG"
                  /\ bias = "Bearish" => r.decision[1].action = "SHORT"
                  /\ r.decision[1].size_pct <= 1500
                  /\ r.decision[1].confidence = GivenConfidence
            /\ ~passes =>
                  /\ r.decision = <<>>
                  /\ r.reason # <<>>
                  /\ r.reason[1] =
                        (IF GivenConfidence < 6000 THEN "Historical support insufficient"
                         ELSE IF state # "TRENDING" THEN "State not trending"
                         ELSE IF GivenTrendShare < 500 THEN "Trend continuation weak"
                         ELSE "Directional bias unclear")
            /\ GivenConfidence = 5500 =>
                  r.reason = <<"Historical support insufficient", 550>>

\* the Steward goes short at exactly the threshold, sized down by the gates
C12_Witness ==
    /\ Decided("StewardAgent")
    /\ GivenConfidence = 6000 /\ GivenTrendShare = 500
    /\ call[1].market.bias = "Bearish"
    /\ ret[1].decision # <<>>
    /\ ret[1].decision[1].action = "SHORT"
    /\ ret[1].decision[1].size_pct < 1500

\* C13: Hunter.decide returns a Decision with action LONG or SHORT when the
\* state is STRESSED, the bias is Neutral and the confidence is at least 0.40.
C13_HunterTradesStressedNeutral ==
    (/\ Decided("HunterAgent")
     /\ Get(call[1].market.state) = "STRESSED"
     /\ Get(call[1].market.bias) = "Neutral"
     /\ GivenConfidence >= 4000) =>
        /\ ret[1].decision # <<>>
        /\ ret[1].decision[1].action \in {"LONG", "SHORT"}

\* C14: Operator.decide returns a Decision only if the confidence is at
\* least 0.50, the volatility is Compressed or Expanding, the bias is Bullish
\* or Bearish and the state is TRANSITION or TRENDING, or RANGE with a
\* balance_state of breakout_up or breakdown_down; in every other state it
\* returns (None, reason).
C14_OperatorTradesOnlyNamedStates ==
    (Decided("OperatorAgent") /\ ret[1].decision # <<>>) =>
        LET state == Get(call[1].market.state)
        IN  /\ GivenConfidence >= 5000
            /\ Get(call[1].market.volatility_state) \in {"Compressed", "Expanding"}
            /\ Get(call[1].market.bias) \in {"Bullish", "Bearish"}
            /\ \/ state \in {"TRANSITION", "TRENDING"}
               \/ /\ state = "RANGE"
                  /\ call[1].profile.trade_conditions.allow_balance_if_breaking
                  /\ Get(call[1].market.balance_state) \in {"breakout_up", "breakdown_down"}

(***************************************************************************)
(* SpecArchive: the archive files under store_regime_snapshot and          *)
(* daily_snapshot_job(symbols), called any number of times on any day.     *)
(* The scan of a symbol either raises, and the job moves on to the next    *)
(* symbol, or yields the regime of the snapshot.                           *)
(***************************************************************************)
MaxLines == 4

MaxDay == 2

JobSymbols == <<"SPY", "QQQ">>

ScannedRegimes == {<<"TRENDING", "Low">>, <<"RANGE", "High">>}

\* a scan that raised is <<>>, a scan that returned is <<regime>>
ScanOutcomes == {<<>>} \cup {<<regime>> : regime \in ScannedRegimes}

NewSnapshot(symbol, day, regime) ==
    ArchiveLine(symbol, day, regime[1], regime[2], <<>>, None)

store_regime_snapshot(archive, symbol, snapshot) ==
    [archive EXCEPT ![symbol] = Append(@, snapshot)]

RECURSIVE daily_snapshot_job(_, _, _, _)
daily_snapshot_job(archive, symbols, scans, day) ==
    IF symbols = <<>> THEN archive
    ELSE LET symbol == Head(symbols)
             scan == Head(scans)
             stored == IF scan = <<>> THEN archive
                       ELSE store_regime_snapshot(archive, symbol,
                                                  NewSnapshot(symbol, day, scan[1]))
         IN  daily_snapshot_job(stored, Tail(symbols), Tail(scans), day)

StoredLines ==
    SumOver([symbol \in ArchiveSymbols |-> Len(archive_file[symbol])], ArchiveSymbols)

InitArchive == call = <<>> /\ ret = <<>> /\ WorkerAtRest /\ EmptyStores

StoreSnapshot ==
    /\ StoredLines < MaxLines
    /\ \E symbol \in ArchiveSymbols : \E day \in 1..today :
       \E regime \in ScannedRegimes :
          archive_file' = store_regime_snapshot(archive_file, symbol,
                                                NewSnapshot(symbol, day, regime))
    /\ UNCHANGED <<call, ret, cycle_vars, agent_decisions, agent_positions,
                   agent_performance_daily, market_regime_archive, broker, today>>

RunSnapshotJob ==
    /\ StoredLines + Len(JobSymbols) <= MaxLines
    /\ \E scans \in [1..Len(JobSymbols) -> ScanOutcomes] :
          archive_file' = daily_snapshot_job(archive_file, JobSymbols, scans, today)
    /\ UNCHANGED <<call, ret, cycle_vars, agent_decisions, agent_positions,
                   agent_performance_daily, market_regime_archive, broker, today>>

NextDay ==
    /\ today < MaxDay
    /\ today' = today + 1
    /\ UNCHANGED <<call, ret, cycle_vars, agent_decisions, agent_positions,
                   agent_performance_daily, market_regime_archive, archive_file,
                   broker>>

NextArchive == StoreSnapshot \/ RunSnapshotJob \/ NextDay

SpecArchive == InitArchive /\ [][NextArchive]_vars

OneRecordPerSymbolDate ==
    \A symbol \in ArchiveSymbols :
        \A i \in DOMAIN archive_file[symbol] : \A j \in DOMAIN archive_file[symbol] :
            (/\ archive_file[symbol][i].symbol = archive_file[symbol][j].symbol
             /\ archive_file[symbol][i].date = archive_file[symbol][j].date) => i = j

StoredRecordsKept ==
    \A symbol \in ArchiveSymbols :
        /\ Len(archive_file'[symbol]) >= Len(archive_file[symbol])
        /\ SubSeq(archive_file'[symbol], 1, Len(archive_file[symbol]))
               = archive_file[symbol]

\* C15: after any sequence of store_regime_snapshot / daily_snapshot_job
\* invocations, two runs on the same day included, the archive of a symbol
\* holds at most one record per (symbol, date), and storing never modifies or
\* removes a record stored before.
C15_OneRecordPerDayAppendOnly ==
    []OneRecordPerSymbolDate /\ [][StoredRecordsKept]_vars

\* the part of C15 that holds: storing only appends
C15_AppendOnly == [][StoredRecordsKept]_vars

(***************************************************************************)
(* Archive files for the similarity query: n lines, one a day up to        *)
(* yesterday, whose regimes repeat a pattern of line kinds.  A kind is the *)
(* regime, whether the forward return was backfilled, and the resolution.  *)
(***************************************************************************)
MaxFileLines == 56

LineKinds ==
    {<<"TRENDING", "Low", TRUE, "Trend Continuation">>,
     <<"TRENDING", "Low", TRUE, "Mean Reversion">>,
     <<"TRENDING", "Low", TRUE, "Chop">>,
     <<"TRENDING", "Low", FALSE, None>>,
     <<"RANGE", "Low", TRUE, "Chop">>,
     <<"TRENDING", "High", TRUE, "Trend Continuation">>}

KindPatterns == {<<k>> : k \in LineKinds} \cup (LineKinds \X LineKinds)

PatternedFile(symbol, n, pattern) ==
    [i \in 1..n |->
        LET kind == pattern[((i - 1) % Len(pattern)) + 1]
        IN  ArchiveLine(symbol, i - n, kind[1], kind[2],
                        IF kind[3] THEN <<(i % 5) - 2>> ELSE <<>>, kind[4])]

QueriedArchives ==
    {[NoArchiveFiles EXCEPT !["SPY"] = PatternedFile("SPY", n, pattern)] :
        n \in 0..MaxFileLines, pattern \in KindPatterns}

QueriedRegimes == {<<"TRENDING", "Low">>, <<"RANGE", "Low">>}

\* the lines of the queried file that match the regime and are complete
MatchingLines ==
    LET file == load_regime_archive(call[1].archive, call[1].symbol)
    IN  {i \in DOMAIN file : /\ file[i].market_state = call[1].current_state
                             /\ file[i].market_friction = call[1].current_friction
                             /\ file[i].forward_10d_return # <<>>}

(***************************************************************************)
(* SpecSimilarity: one call of get_similarity_stats.                       *)
(***************************************************************************)
InitSimilarity == call = <<>> /\ ret = <<>> /\ WorkerAtRest /\ EmptyStores

DrawSimilarity ==
    /\ call = <<>>
    /\ \E a \in QueriedArchives : \E symbol \in ArchiveSymbols :
       \E regime \in QueriedRegimes :
          call' = <<[archive |-> a, symbol |-> symbol,
                     current_state |-> regime[1], current_friction |-> regime[2]]>>
    /\ UNCHANGED <<ret, cycle_vars, store_vars>>

CallSimilarity ==
    /\ call # <<>> /\ ret = <<>>
    /\ ret' = <<get_similarity_stats(call[1].archive, call[1].symbol,
                                     call[1].current_state, call[1].current_friction)>>
    /\ UNCHANGED <<call, cycle_vars, store_vars>>

NextSimilarity == DrawSimilarity \/ CallSimilarity

SpecSimilarity == InitSimilarity /\ [][NextSimilarity]_vars

\* the same archive without the newest line of the queried file
OneLineLess ==
    LET file == load_regime_archive(call[1].archive, call[1].symbol)
    IN  [call[1].archive EXCEPT ![call[1].symbol] = SubSeq(file, 1, Len(file) - 1)]

\* C16: the confidence of get_similarity_stats is min(total_occurrences / 50,
\* 1.0): non-decreasing in the occurrences, within [0, 1], 0.5 at 25
\* occurrences and 1.0 at 50 or more; when no record matches, the result has
\* total_occurrences 0, confidence 0 and the three percentages 0.
C16_ConfidenceIsCappedShare ==
    ret # <<>> =>
        LET matching == Cardinality(MatchingLines)
            r == ret[1]
        IN  /\ r.total_occurrences = Min(matching, 50)
            /\ r.confidence * 50 = Min(r.total_occurrences * 10000, 500000)
            /\ 0 <= r.confidence /\ r.confidence <= 10000
            /\ matching = 25 => r.confidence = 5000
            /\ matching >= 50 => r.confidence = 10000
            /\ matching = 0 =>
                  /\ r.total_occurrences = 0 /\ r.confidence = 0
                  /\ r.trend_continuation_pct = 0
                  /\ r.mean_reversion_pct = 0
                  /\ r.chop_pct = 0
            /\ load_regime_archive(call[1].archive, call[1].symbol) # <<>> =>
                  get_similarity_stats(OneLineLess, call[1].symbol,
                                       call[1].current_state,
                                       call[1].current_friction).confidence
                      <= r.confidence

\* 25 of the 50 lines match: every second line was never backfilled
C16_Witness ==
    /\ ret # <<>>
    /\ Cardinality(MatchingLines) = 25
    /\ Len(call[1].archive[call[1].symbol]) = 50
    /\ ret[1].total_occurrences = 25
    /\ ret[1].confidence = 5000

(***************************************************************************)
(* SpecQuery: one call of query_similar_regimes.                           *)
(***************************************************************************)
MaxResultsArgs == {1, 2, 25, 50}

InitQuery == call = <<>> /\ ret = <<>> /\ WorkerAtRest /\ EmptyStores

DrawQuery ==
    /\ call = <<>>
    /\ \E a \in QueriedArchives : \E symbol \in ArchiveSymbols :
       \E regime \in QueriedRegimes : \E max_results \in MaxResultsArgs :
          call' = <<[archive |-> a, symbol |-> symbol,
                     current_state |-> regime[1], current_friction |-> regime[2],
                     max_results |-> max_results]>>
    /\ UNCHANGED <<ret, cycle_vars, store_vars>>

CallQuery ==
    /\ call # <<>> /\ ret = <<>>
    /\ ret' = <<query_similar_regimes(call[1].archive, call[1].symbol,
                                      call[1].current_state, call[1].current_friction,
                                      call[1].max_results)>>
    /\ UNCHANGED <<call, cycle_vars, store_vars>>

NextQuery == DrawQuery \/ CallQuery

SpecQuery == InitQuery /\ [][NextQuery]_vars

\* the matching lines, oldest first
RECURSIVE Ascending(_)
Ascending(S) ==
    IF S = {} THEN <<>>
    ELSE LET newest == CHOOSE i \in S : \A j \in S : j <= i
         IN  Append(Ascending(S \ {newest}), newest)

\* C17: query_similar_regimes returns exactly the records of the symbol's
\* archive with the queried market_state and market_friction and a
\* forward_10d_return, restricted to the most recent max_results (at most
\* 50); a record without forward return is never returned, and at most 50
\* records enter the summary.
C17_MostRecentCompleteMatches ==
    ret # <<>> =>
        LET file == load_regime_archive(call[1].archive, call[1].symbol)
            df == ret[1]
            matches == Ascending(MatchingLines)
            k == Min(Len(matches), call[1].max_results)
            left_out == Len(matches) - k
        IN  /\ Len(df) = k
            /\ Len(df) <= 50
            /\ \A j \in 1..k :
                  /\ df[j].symbol = call[1].symbol
                  /\ df[j].market_state = call[1].current_state
                  /\ df[j].market_friction = call[1].current_friction
                  /\ df[j].forward_10d_return # <<>>
                  /\ df[j] = file[matches[left_out + j]]
            /\ \A i \in 1..left_out : \A j \in 1..k :
                  file[matches[i]].date < df[j].date
            /\ get_similarity_stats(call[1].archive, call[1].symbol,
                                    call[1].current_state,
                                    call[1].current_friction).total_occurrences <= 50

\* more lines match than are asked for, lines without forward return lie
\* between them, and the newest two are returned
C17_Witness ==
    /\ ret # <<>>
    /\ call[1].max_results = 2
    /\ Cardinality(MatchingLines) > 2
    /\ \E i \in DOMAIN call[1].archive[call[1].symbol] :
          call[1].archive[call[1].symbol][i].forward_10d_return = <<>>
    /\ Len(ret[1]) = 2
    /\ ret[1][2].date >= -1

(***************************************************************************)
(* SpecFriction: one call of assess_market_friction on any scan result:    *)
(* each field it reads present with one of its values, or absent.          *)
(***************************************************************************)
FrictionFields ==
    {"macro", "ma_regime", "balance_state", "balance_zone", "unfilled_gaps",
     "vix_extreme", "confluence_score"}

FullResults ==
    {[macro |-> macro, ma_regime |-> ma, balance_state |-> b, balance_zone |-> z,
      unfilled_gaps |-> g, vix_extreme |-> x, confluence_score |-> c] :
        macro \in {"Bull", "Transitional", "Unknown"},
        ma \in {"Bull", "Neutral"},
        b \in {"in_balance", "breakout_up", "breakdown_down"},
        z \in BOOLEAN, g \in BOOLEAN, x \in BOOLEAN,
        c \in {0, 4, 5, 12}}

Without(r, absent) == [key \in DOMAIN r \ absent |-> r[key]]

FrictionResults ==
    {Without(r, absent) : r \in FullResults, absent \in SUBSET FrictionFields}

InitFriction == call = <<>> /\ ret = <<>> /\ WorkerAtRest /\ EmptyStores

DrawFriction ==
    /\ call = <<>>
    /\ \E r \in FrictionResults : call' = <<r>>
    /\ UNCHANGED <<ret, cycle_vars, store_vars>>

CallFriction ==
    /\ call # <<>> /\ ret = <<>>
    /\ ret' = <<assess_market_friction(call[1])>>
    /\ UNCHANGED <<call, cycle_vars, store_vars>>

NextFriction == DrawFriction \/ CallFriction

SpecFriction == InitFriction /\ [][NextFriction]_vars

Has(r, key, values) == key \in DOMAIN r /\ r[key] \in values

\* the one-point conditions a result meets, an absent regime reading as
\* 'Unknown' and an absent confluence score as 0
ConditionsMet(r) ==
    {condition \in {"macro regime unclear", "trend regime unclear",
                    "breakout at a balance zone", "unfilled gaps", "VIX extreme",
                    "sparse confluence"} :
        CASE condition = "macro regime unclear" ->
                 "macro" \notin DOMAIN r \/ r.macro \in {"Unknown", "Transitional"}
          [] condition = "trend regime unclear" ->
                 "ma_regime" \notin DOMAIN r \/ r.ma_regime \in {"Neutral", "Unknown"}
          [] condition = "breakout at a balance zone" ->
                 /\ Has(r, "balance_zone", {TRUE})
                 /\ Has(r, "balance_state", {"breakout_up", "breakdown_down"})
          [] condition = "unfilled gaps" -> Has(r, "unfilled_gaps", {TRUE})
          [] condition = "VIX extreme" -> Has(r, "vix_extreme", {TRUE})
          [] condition = "sparse confluence" ->
                 "confluence_score" \notin DOMAIN r \/ r.confluence_score <= 4}

InBalance(r) == Has(r, "balance_state", {"in_balance"})

\* C19: the level of assess_market_friction is set by the points alone: Low
\* up to 2, Moderate at 3 or 4, High from 5; in-balance overlap contributes 2
\* points and every other condition 1; each level carries its one rationale.
C19_LevelFromPoints ==
    ret # <<>> =>
        LET points == Cardinality(ConditionsMet(call[1]))
                          + (IF InBalance(call[1]) THEN 2 ELSE 0)
        IN  /\ points <= 2 => ret[1].level = "Low"
            /\ points \in {3, 4} => ret[1].level = "Moderate"
            /\ points >= 5 => ret[1].level = "High"
            /\ ret[1].level = "Low" =>
                  ret[1].signal = "Structure is clean. Directional control is clear."
            /\ ret[1].level = "Moderate" =>
                  ret[1].signal
                      = "Structure is mixed. Demand confirmation and tighter structure."
            /\ ret[1].level = "High" =>
                  ret[1].signal
                      = "Overlapping structure. Expect chop and protect capital."

\* in-balance overlap alone with one more condition makes 3 points: Moderate
C19_Witness ==
    /\ ret # <<>>
    /\ InBalance(call[1])
    /\ ConditionsMet(call[1]) = {"unfilled gaps"}
    /\ ret[1].level = "Moderate"

AbsentReading(key) ==
    CASE key = "macro" -> "Unknown"
      [] key = "ma_regime" -> "Unknown"
      [] key = "balance_state" -> None
      [] key = "confluence_score" -> 0
      [] OTHER -> FALSE

\* r with every absent field set to the value the code reads for it
Completed(r, reading(_)) ==
    [key \in FrictionFields |-> IF key \in DOMAIN r THEN r[key] ELSE reading(key)]

NotMet(key) ==
    CASE key = "macro" -> "Bull"
      [] key = "ma_regime" -> "Bull"
      [] key = "balance_state" -> None
      [] key = "confluence_score" -> 5
      [] OTHER -> FALSE

\* C20 as stated: assess_market_friction is total and treats every absent
\* input as 'condition not met': a result with all fields missing
\* accumulates zero points and is rated Low, and no missing field adds a
\* point.
C20_AbsentIsNotMet ==
    ret # <<>> =>
        /\ ret[1].level \in {"Low", "Moderate", "High"}
        /\ DOMAIN call[1] = {} => friction_points(call[1]) = 0 /\ ret[1].level = "Low"
        /\ friction_points(call[1]) = friction_points(Completed(call[1], NotMet))

\* C20, amended: assess_market_friction is total; absent technical and
\* volatility fields add no point, while an absent macro regime and an absent
\* trend regime read as 'Unknown' and an absent confluence score as 0, one
\* point each: a result with all fields missing accumulates 3 points and is
\* rated Moderate.
C20_AbsentRegimeAndConfluenceCount ==
    ret # <<>> =>
        /\ ret[1].level \in {"Low", "Moderate", "High"}
        /\ DOMAIN call[1] = {} =>
              friction_points(call[1]) = 3 /\ ret[1].level = "Moderate"
        /\ friction_points(call[1]) = friction_points(Completed(call[1], AbsentReading))
        /\ \A key \in {"balance_state", "balance_zone", "unfilled_gaps", "vix_extreme"} :
              friction_points(Without(call[1], {key})) <= friction_points(call[1])

\* the result with every field missing is rated
C20_Witness ==
    /\ ret # <<>>
    /\ DOMAIN call[1] = {}
    /\ ret[1].level = "Moderate"

(***************************************************************************)
(* matrix_scanner/app.py: the weighted checklist.  Weights and scores are  *)
(* in halves of a point (1.5 is 3).  A checklist is the dict of            *)
(* calculate_checklist, its keys in declaration order, or that dict with   *)
(* keys left out.                                                          *)
(***************************************************************************)
CHECKLIST_KEYS ==
    <<"trendline_zone", "2b_or_pattern", "imbalance", "volume_anomaly",
      "proxy_memory", "intermarket_divergence", "sequence_level", "curvature",
      "balance_zone", "liquidity_grab", "htf_structure", "space_vacuum">>

WEIGHTED_CHECKLIST ==
    [key \in {CHECKLIST_KEYS[i] : i \in DOMAIN CHECKLIST_KEYS} |->
        CASE key = "2b_or_pattern" -> 3
          [] key \in {"intermarket_divergence", "curvature"} -> 1
          [] OTHER -> 2]

\* key.replace('_', ' ').title()
Label(key) ==
    CASE key = "trendline_zone" -> "Trendline Zone"
      [] key = "2b_or_pattern" -> "2B Or Pattern"
      [] key = "imbalance" -> "Imbalance"
      [] key = "volume_anomaly" -> "Volume Anomaly"
      [] key = "proxy_memory" -> "Proxy Memory"
      [] key = "intermarket_divergence" -> "Intermarket Divergence"
      [] key = "sequence_level" -> "Sequence Level"
      [] key = "curvature" -> "Curvature"
      [] key = "balance_zone" -> "Balance Zone"
      [] key = "liquidity_grab" -> "Liquidity Grab"
      [] key = "htf_structure" -> "Htf Structure"
      [] key = "space_vacuum" -> "Space Vacuum"

calculate_weighted_score_truncating(checklist) ==
    LET max_score == SumOver(WEIGHTED_CHECKLIST, DOMAIN WEIGHTED_CHECKLIST)
        score == SumOver(WEIGHTED_CHECKLIST,
                         {key \in DOMAIN WEIGHTED_CHECKLIST :
                             DictGet(checklist, key, FALSE)})
        normalized == IF max_score # 0 THEN (score * 12) \div max_score ELSE 0
    IN  <<score, max_score, normalized>>

calculate_weighted_score(checklist) ==
    LET max_score == SumOver(WEIGHTED_CHECKLIST, DOMAIN WEIGHTED_CHECKLIST)
        score == SumOver(WEIGHTED_CHECKLIST,
                         {key \in DOMAIN WEIGHTED_CHECKLIST :
                             DictGet(checklist, key, FALSE)})
        normalized == IF max_score # 0 THEN RoundHalfEven(score * 12, max_score) ELSE 0
    IN  <<score, max_score, normalized>>

\* list.sort(key=weight, reverse=True): stable, descending
RECURSIVE SortByWeight(_)
SortByWeight(items) ==
    IF items = <<>> THEN <<>>
    ELSE LET sorted == SortByWeight(SubSeq(items, 1, Len(items) - 1))
             item == items[Len(items)]
             ahead == Cardinality({i \in DOMAIN sorted : sorted[i][2] >= item[2]})
         IN  SubSeq(sorted, 1, ahead) \o <<item>>
                 \o SubSeq(sorted, ahead + 1, Len(sorted))

\* q[:n]
First(q, n) == SubSeq(q, 1, Min(n, Len(q)))

build_confluence_attribution_unsorted(checklist) ==
    LET keys == SelectSeq(CHECKLIST_KEYS, LAMBDA key : key \in DOMAIN checklist)
        Item(key) == <<Label(key), DictGet(WEIGHTED_CHECKLIST, key, 2)>>
        present == SelectSeq(keys, LAMBDA key : checklist[key])
        absent == SelectSeq(keys, LAMBDA key : ~checklist[key])
        Labels(items) == [i \in DOMAIN items |-> Item(items[i])[1]]
    IN  [drivers |-> Labels(First(present, 3)), gaps |-> Labels(First(absent, 3))]

build_confluence_attribution(checklist) ==
    LET keys == SelectSeq(CHECKLIST_KEYS, LAMBDA key : key \in DOMAIN checklist)
        Item(key) == <<Label(key), DictGet(WEIGHTED_CHECKLIST, key, 2)>>
        Items(q) == [i \in DOMAIN q |-> Item(q[i])]
        present == Items(SelectSeq(keys, LAMBDA key : checklist[key]))
        absent == Items(SelectSeq(keys, LAMBDA key : ~checklist[key]))
        Labels(items) == [i \in DOMAIN items |-> items[i][1]]
    IN  [drivers |-> Labels(First(SortByWeight(present), 3)),
         gaps |-> Labels(First(SortByWeight(absent), 3))]

(***************************************************************************)
(* SpecChecklist: one call of calculate_weighted_score or of               *)
(* build_confluence_attribution on a checklist.                            *)
(***************************************************************************)
AllChecks == {CHECKLIST_KEYS[i] : i \in DOMAIN CHECKLIST_KEYS}

LeftOut ==
    {{}, {"2b_or_pattern"}, {"curvature", "htf_structure", "trendline_zone"}, AllChecks}

Checklists == UNION {[AllChecks \ absent -> BOOLEAN] : absent \in LeftOut}

InitChecklist == call = <<>> /\ ret = <<>> /\ WorkerAtRest /\ EmptyStores

DrawChecklist ==
    /\ call = <<>>
    /\ \E checklist \in Checklists :
       \E function \in {"calculate_weighted_score", "build_confluence_attribution"} :
          call' = <<[function |-> function, checklist |-> checklist]>>
    /\ UNCHANGED <<ret, cycle_vars, store_vars>>

CallScore ==
    /\ call # <<>> /\ ret = <<>>
    /\ call[1].function = "calculate_weighted_score"
    /\ ret' = <<calculate_weighted_score(call[1].checklist)>>
    /\ UNCHANGED <<call, cycle_vars, store_vars>>

CallAttribution ==
    /\ call # <<>> /\ ret = <<>>
    /\ call[1].function = "build_confluence_attribution"
    /\ ret' = <<build_confluence_attribution(call[1].checklist)>>
    /\ UNCHANGED <<call, cycle_vars, store_vars>>

NextChecklist == DrawChecklist \/ CallScore \/ CallAttribution

SpecChecklist == InitChecklist /\ [][NextChecklist]_vars

Scored == ret # <<>> /\ call[1].function = "calculate_weighted_score"

Attributed == ret # <<>> /\ call[1].function = "build_confluence_attribution"

Position(key) == CHOOSE i \in DOMAIN CHECKLIST_KEYS : CHECKLIST_KEYS[i] = key

\* a goes before b: the heavier first, ties in declaration order
Outranks(a, b) ==
    \/ WEIGHTED_CHECKLIST[a] > WEIGHTED_CHECKLIST[b]
    \/ WEIGHTED_CHECKLIST[a] = WEIGHTED_CHECKLIST[b] /\ Position(a) < Position(b)

TopThree(items) ==
    [i \in 1..Min(3, Cardinality(items)) |->
        Label(CHOOSE key \in items :
                  Cardinality({other \in items : Outranks(other, key)}) = i - 1)]

TrueChecks == {key \in DOMAIN call[1].checklist : call[1].checklist[key]}

FalseChecks == {key \in DOMAIN call[1].checklist : ~call[1].checklist[key]}

\* normalized is the integer nearest to weighted_score / weighted_max * 12
NearestOfTwelve(score, max_score, normalized) ==
    /\ 2 * (normalized * max_score - score * 12) <= max_score
    /\ 2 * (score * 12 - normalized * max_score) <= max_score

HalvesOfChecked == SumOver(WEIGHTED_CHECKLIST, TrueChecks)

\* C18 as stated: for every checklist, missing keys counting as false,
\* normalized_score = round(weighted_score / weighted_max * 12) within 0..12,
\* the weights summing to 12.0, and the attribution lists at most 3 drivers
\* and at most 3 gaps, drivers the present items and gaps the absent items,
\* in descending weight with ties in declaration order.
C18_WeightsSumToTwelve ==
    /\ Scored =>
          /\ ret[1][1] = HalvesOfChecked
          /\ ret[1][2] = 24
          /\ NearestOfTwelve(ret[1][1], ret[1][2], ret[1][3])
          /\ 0 <= ret[1][3] /\ ret[1][3] <= 12
    /\ Attributed =>
          /\ Len(ret[1].drivers) <= 3 /\ Len(ret[1].gaps) <= 3
          /\ ret[1].drivers = TopThree(TrueChecks)
          /\ ret[1].gaps = TopThree(AllChecks \ TrueChecks)

\* C18, amended: the weights sum to 11.5, normalized_score is
\* round(weighted_score / 11.5 * 12) within 0..12 (12 when every check is
\* true), and the gaps are the items the checklist holds as false: a key the
\* checklist lacks adds no weight and is listed neither as driver nor as gap.
C18_ScoreOfElevenAndAHalf ==
    /\ Scored =>
          /\ ret[1][1] = HalvesOfChecked
          /\ ret[1][2] = 23
          /\ NearestOfTwelve(ret[1][1], ret[1][2], ret[1][3])
          /\ 0 <= ret[1][3] /\ ret[1][3] <= 12
          /\ TrueChecks = AllChecks => ret[1][3] = 12
    /\ Attributed =>
          /\ Len(ret[1].drivers) <= 3 /\ Len(ret[1].gaps) <= 3
          /\ ret[1].drivers = TopThree(TrueChecks)
          /\ ret[1].gaps = TopThree(FalseChecks)

\* eleven checks of 10.5 points score 11 of 12
C18_Witness ==
    /\ Scored
    /\ DOMAIN call[1].checklist = AllChecks
    /\ AllChecks \ TrueChecks = {"trendline_zone"}
    /\ ret[1] = <<21, 23, 11>>

\* the attribution breaks ties in declaration order and skips the lighter
C18_WitnessAttribution ==
    /\ Attributed
    /\ ret[1].drivers = <<"2B Or Pattern", "Imbalance", "Volume Anomaly">>
    /\ ret[1].gaps = <<"Trendline Zone", "Intermarket Divergence">>


(***************************************************************************)
(* Failed writes to the persistence stores during a cycle.                 *)
(***************************************************************************)
\* the positions of run_agent_cycle at which it writes a store: the
\* decision-log insert (of a block and of an execution) and the
\* agent_positions insert; the daily-performance upsert is the last statement
\* of update_daily_performance, whose failure is the ~upserted branch
WriteSteps == {"log_decision", "log_executed", "insert_position"}

\* C21: a failed write to a persistence store during a cycle (decision-log
\* insert, agent_positions insert, daily-performance upsert) is a warning and
\* never fatal: no exception leaves run_agent_cycle from a write, and the
\* steps after the write still run.
C21_FailedWriteNeverFatal ==
    [][(pc \in WriteSteps) =>
          (trail' # Append(trail, "raise") /\ reported' = reported)]_vars


(***************************************************************************)
(* Isolation of the agents' positions.                                     *)
(***************************************************************************)
Holds(q, record) == \E i \in DOMAIN q : q[i] = record

\* C22: an executed trade of one agent leaves every position record of every
\* other agent unchanged, in agent_positions and in the paper broker.  The
\* broker of a run starts empty and each agent trades at most once in a run,
\* so a position the broker holds when an agent executes is another agent's.
C22_TradeLeavesOtherAgentsPositions ==
    [][(pc = "execute" \/ pc = "insert_position") =>
          /\ \A i \in DOMAIN broker.positions : Holds(broker'.positions, broker.positions[i])
          /\ \A i \in DOMAIN agent_positions :
                /\ i \in DOMAIN agent_positions'
                /\ agent_positions'[i] = agent_positions[i]]_vars


(***************************************************************************)
(* determine_primary_state below the STRESSED and TRENDING triggers.       *)
(***************************************************************************)
CrossoverSignals == {"Long", "Short", "Exit Long", "Exit Short"}

\* the direction of an entry crossover, else of the trend regime, else none
MomentumDirection(signal, ma_regime) ==
    IF signal = "Long" THEN "Bullish"
    ELSE IF signal = "Short" THEN "Bearish"
    ELSE IF ma_regime = "Bull" THEN "Bullish"
    ELSE IF ma_regime = "Bear" THEN "Bearish"
    ELSE "Neutral"

GateEvaluated == pc # "idle" /\ (Did("allowed: True") \/ Did("allowed: False"))

\* C24: in a cycle whose drift against the prior day is MAJOR, Hunter is
\* allowed past the drift gate (and trades at half size).
C24_HunterPassesMajorDrift ==
    (GateEvaluated /\ agent_name = "Hunter" /\ market.drift = "MAJOR DRIFT") =>
        Did("allowed: True")


\* what detect_narrative_drift returns, hence calculate_drift when
\* market_regime_archive holds the symbol's row of the day before
DriftLevels == {"STABLE", "MINOR DRIFT", "MODERATE DRIFT", "MAJOR DRIFT"}

PriorDayRecord ==
    \E row \in market_regime_archive : row.symbol = "SPY" /\ row.date = today - 1

PastTheGate ==
    {"decide", "risk_check", "execute", "log_executed", "insert_position",
     "update_daily_performance"}

OpenCount(positions, id) == Cardinality(OpenRows(positions, id))

WithinMaxPositions ==
    \A i \in DOMAIN AGENTS :
        OpenCount(agent_positions, get_agent_id(AGENTS[i].profile.name))
            <= AGENTS[i].profile.max_positions

\* a step that changes agent_positions appends one open row of the agent of
\* the cycle, which held fewer than max_positions open rows, as the risk_check
\* of this cycle saw
OneRowBelowTheLimit ==
    agent_positions' # agent_positions =>
        /\ Len(agent_positions') = Len(agent_positions) + 1
        /\ SubSeq(agent_positions', 1, Len(agent_positions)) = agent_positions
        /\ agent_positions'[Len(agent_positions')].agent_id = agent_id
        /\ agent_positions'[Len(agent_positions')].closed_at = 0
        /\ Did("risk_check: True")
        /\ OpenCount(agent_positions, agent_id) < Agent.profile.max_positions

\* C26: after any sequence of sequentially executed cycles no agent has more
\* open agent_positions rows than its max_positions: an executed cycle adds
\* exactly one open row, and only after risk_check saw a count strictly below
\* the limit.
C26_OpenRowsWithinMaxPositions ==
    []WithinMaxPositions /\ [][OneRowBelowTheLimit]_vars

\* Steward's executed cycle has brought it to its limit of two open rows
C26_Witness ==
    /\ pc = "update_daily_performance" /\ agent_name = "Steward"
    /\ Did("agent_positions.insert")
    /\ OpenCount(agent_positions, agent_id) = Agent.profile.max_positions

(***************************************************************************)
(* SpecLive: the daily run next to the jobs that maintain the archive      *)
(* files.  The files are absent at first, or the SPY file is backfilled    *)
(* with completed records; between the cycles of the run                   *)
(* daily_snapshot_job appends snapshots whose forward_10d_return is null   *)
(* (to at most MaxLiveLines lines in all) and update_forward_returns is    *)
(* run on the files.  The table market_regime_archive is empty, so no      *)
(* cycle is stopped for drift.                                             *)
(***************************************************************************)
MaxLiveLines == 2

update_forward_returns_backfilling(archive, symbol) ==
    [archive EXCEPT ![symbol] =
        [i \in DOMAIN archive[symbol] |->
            IF archive[symbol][i].forward_10d_return = <<>>
            THEN [archive[symbol][i] EXCEPT !.forward_10d_return = <<1>>,
                                            !.resolution_type = "Trend Continuation"]
            ELSE archive[symbol][i]]]

\* the snapshots are loaded; the loop that would compute the returns and the
\* write-back are comments, so the file is left as it is
update_forward_returns(archive, symbol) ==
    LET snapshots == load_regime_archive(archive, symbol)
    IN  IF snapshots = <<>> THEN archive
        ELSE [archive EXCEPT ![symbol] = snapshots]

InitLive ==
    /\ call = <<>> /\ ret = <<>> /\ WorkerAtRest
    /\ agent_decisions = <<>> /\ agent_positions = <<>>
    /\ agent_performance_daily = {} /\ market_regime_archive = {}
    /\ archive_file \in {NoArchiveFiles,
                         [NoArchiveFiles EXCEPT !["SPY"] = BackfilledArchive]}
    /\ broker = NewBroker /\ today = 1

LiveSnapshotJob ==
    /\ pc = "idle"
    /\ StoredLines + Len(JobSymbols) <= MaxLiveLines
    /\ \E scans \in [1..Len(JobSymbols) -> ScanOutcomes] :
          archive_file' = daily_snapshot_job(archive_file, JobSymbols, scans, today)
    /\ UNCHANGED <<call, ret, cycle_vars, agent_decisions, agent_positions,
                   agent_performance_daily, market_regime_archive, broker, today>>

UpdateForwardReturns ==
    /\ pc = "idle"
    /\ \E symbol \in ArchiveSymbols :
          archive_file' = update_forward_returns(archive_file, symbol)
    /\ UNCHANGED <<call, ret, cycle_vars, agent_decisions, agent_positions,
                   agent_performance_daily, market_regime_archive, broker, today>>

NextLive == Next \/ LiveSnapshotJob \/ UpdateForwardReturns

SpecLive == InitLive /\ [][NextLive]_vars

SimilarityBlocks ==
    {"Historical support insufficient", "Similarity below threshold",
     "Even Hunter requires minimum similarity"}

RegimesOf(symbol) ==
    {<<archive_file[symbol][i].market_state, archive_file[symbol][i].market_friction>> :
        i \in DOMAIN archive_file[symbol]}

\* every line of the archive files was appended by daily_snapshot_job on a
\* day of the run, none was there before
CreatedByJob ==
    \A symbol \in ArchiveSymbols : \A i \in DOMAIN archive_file[symbol] :
        archive_file[symbol][i].date \in 1..today

\* C27: while the archive holds only what daily_snapshot_job appended and
\* update_forward_returns left alone, query_similar_regimes finds no record
\* for any regime, get_similarity_stats returns confidence 0, every decide()
\* that is called returns a similarity block, and no cycle reaches risk_check
\* or broker.execute.
C27_NoCycleTrades ==
    CreatedByJob =>
        /\ \A symbol \in ArchiveSymbols : \A regime \in RegimesOf(symbol) :
              /\ query_similar_regimes(archive_file, symbol, regime[1], regime[2], 50)
                    = <<>>
              /\ get_similarity_stats(archive_file, symbol, regime[1], regime[2])
                    .confidence = 0
        /\ similarity.confidence = 0 /\ similarity.total_occurrences = 0
        /\ pc \notin {"risk_check", "execute", "log_executed", "insert_position",
                      "update_daily_performance"}
        /\ ~Did("decide: Decision") /\ ~Did("decide: abstain")
        /\ ~Did("risk_check: True") /\ ~Did("risk_check: False")
        /\ ~Did("broker.execute")
        /\ (pc = "log_decision" /\ Did("decide: blocked")) =>
              decision_log.proposed_action[1] \in SimilarityBlocks
        /\ broker = NewBroker /\ agent_positions = <<>>

\* Hunter's decide() blocked for similarity although the archive holds a
\* snapshot of the very regime of the cycle
C27_Witness ==
    /\ CreatedByJob
    /\ pc = "log_decision" /\ Did("decide: blocked") /\ agent_name = "Hunter"
    /\ <<market.state, market.friction>> \in RegimesOf("SPY")
    /\ decision_log.proposed_action[1] = "Even Hunter requires minimum similarity"


(***************************************************************************)
(* What decide() hands to the orchestrator.                                *)
(***************************************************************************)
\* the branch of run_agent_cycle that a result of decide() selects:
\* "if decision_block:", then "if not decision:", else the trade goes on
BranchAfterDecide(d) ==
    IF d.reason # <<>> /\ d.reason[1] # "" THEN "blocked"
    ELSE IF d.decision = <<>> THEN "abstain"
    ELSE "Decision"

\* C28: for each agent and every (market, similarity) input decide() returns
\* either (Decision, None) or (None, reason) with a non-empty reason, never
\* (None, None) and never both, so the orchestrator never takes its
\* 'Abstained' branch.
C28_ExactlyOneOfDecisionAndReason ==
    ret # <<>> =>
        /\ \/ ret[1].decision # <<>> /\ ret[1].reason = <<>>
           \/ ret[1].decision = <<>> /\ ret[1].reason # <<>> /\ ret[1].reason[1] # ""
        /\ BranchAfterDecide(ret[1]) # "abstain"

\* Hunter without direction in a STRESSED market: a reason, not (None, None)
C28_Witness ==
    /\ Decided("HunterAgent")
    /\ call[1].market.state = "STRESSED" /\ call[1].market.bias = Missing
    /\ GivenConfidence >= 4000
    /\ ret[1] = [decision |-> <<>>, reason |-> <<"No directional conviction">>]


MaxTrades == 2

TradePnls == {-150, -60, 40}

TradePnlSeqs == UNION {[1..n -> TradePnls] : n \in 0..MaxTrades}

InitPerf ==
    /\ call = <<>> /\ ret = <<>> /\ WorkerAtRest
    /\ agent_decisions = <<>>
    /\ \E i \in DOMAIN AGENTS : \E pnls \in TradePnlSeqs :
          agent_positions =
              PositionsTable(get_agent_id(AGENTS[i].profile.name), 1, pnls, TRUE)
    /\ agent_performance_daily = {} /\ market_regime_archive = {}
    /\ archive_file = NoArchiveFiles /\ broker = NewBroker /\ today = 1

\* update_daily_performance(agent_id, CAPITAL_START); a failed upsert is a
\* warning
UpdateDailyPerformance ==
    /\ \E i \in DOMAIN AGENTS : \E upserted \in BOOLEAN :
          agent_performance_daily' =
              IF upserted
              THEN Upsert(agent_performance_daily,
                          performance_row(agent_positions, agent_performance_daily,
                                          get_agent_id(AGENTS[i].profile.name),
                                          CAPITAL_START, today))
              ELSE agent_performance_daily
    /\ UNCHANGED <<call, ret, cycle_vars, agent_decisions, agent_positions,
                   market_regime_archive, archive_file, broker, today>>

\* risk_check(profile, agent_id, trade) of a trade of the full position size
RiskCheck ==
    /\ \E i \in DOMAIN AGENTS :
          LET profile == AGENTS[i].profile
              id == get_agent_id(profile.name)
          IN  /\ call' = <<[agent_id |-> id]>>
              /\ ret' = <<risk_check(profile, id, [size_pct |-> profile.max_position_pct],
                                     agent_positions, agent_performance_daily, today)>>
    /\ UNCHANGED <<cycle_vars, store_vars>>

NextPerf == UpdateDailyPerformance \/ RiskCheck \/ NextDay

SpecPerf == InitPerf /\ [][NextPerf]_vars

\* C30: every record that update_daily_performance wrote has drawdown 0,
\* whatever the open and closed positions, so risk_check never answers
\* "Max drawdown breached" on the performance data the system wrote itself.
C30_DrawdownAlwaysZero ==
    /\ \A row \in agent_performance_daily : row.drawdown = 0
    /\ ret # <<>> => ret[1].reason[1] # "Max drawdown breached"

\* an agent that lost 60% of its capital: today's record says drawdown 0 and
\* the drawdown stop of risk_check stays silent
C30_Witness ==
    /\ ret # <<>> /\ ret[1].reason[1] # "Max drawdown breached"
    /\ \E row \in agent_performance_daily :
          /\ row.agent_id = call[1].agent_id /\ row.date = today
          /\ row.equity = 4000 /\ row.drawdown = 0

=============================================================================
